---- MODULE Spec2Model ----
(***************************************************************************)
(* A model of que's statement / expression / argument objects and of the   *)
(* SQL text they render (src/que/structure.py, src/que/style.py).          *)
(*                                                                         *)
(* SQL text is a sequence of tokens.  A token is a record                  *)
(*   [k, tpl, n, t]                                                        *)
(* k = "lit"  : literal text t (a keyword, a name, an operator)            *)
(* k = "ph"   : a placeholder: the style's template tpl, filled with the   *)
(*              integer n (numbered styles), with the name t (named        *)
(*              styles) or with nothing (positional styles, n = 0, t = "") *)
(* k = "repr" : the repr() of a Select object whose table is t, which is   *)
(*              what an f-string makes of a Select instance                *)
(* White space and line breaks are not modelled.                           *)
(***************************************************************************)
EXTENDS Integers, Sequences, FiniteSets, TLC

VARIABLES
    DEFAULT,    \* DEFAULT_PARAM_STYLE.DEFAULT, the process-wide default style
    obj,        \* the object the client built (a statement, a Join, ...)
    pc,         \* "built": nothing rendered yet; "rendered": to_sql returned
    call,       \* the arguments of the to_sql call: [style, offset]
    out         \* what the call returned: [sql, args]

vars == <<DEFAULT, obj, pc, call, out>>

----------------------------------------------------------------------------
(* Bounds of the model.                                                    *)

\* the longest field list and the longest filter list of one clause
MaxLen == 2
\* the most fields and expressions in one object, all clauses together
MaxSize == 3
\* the most joins of one statement
MaxJoins == 1
\* the largest offset a caller passes
MaxOffset == 2

----------------------------------------------------------------------------
(* style.py                                                                *)

\* an omitted argument (Python's None)
None == "None"
\* the Ellipsis that marks an unset Field.left / Field.right
Unset == "..."

BasicParamStyle == {"QM", "FM"}
NumParamStyle == {"NUM", "DOL"}
NameParamStyle == {"NAME", "PYFM"}
ParamStyleT == BasicParamStyle \cup NumParamStyle \cup NameParamStyle

\* the value of a style member: NUM and NAME share the template ":{}"
StyleValue(style) ==
    CASE style = "QM" -> "?"
      [] style = "FM" -> "%s"
      [] style = "NUM" -> ":{}"
      [] style = "DOL" -> "${}"
      [] style = "NAME" -> ":{}"
      [] style = "PYFM" -> "%({})s"

\* default_style() with no argument: the current default
default_style == DEFAULT

\* `style or default_style()` that reads the default the process started with
StyleOrDefault_initial(style) == IF style # None THEN style ELSE "NUM"

\* `style or default_style()`
StyleOrDefault(style) == IF style # None THEN style ELSE default_style

----------------------------------------------------------------------------
(* Tokens of the emitted text.                                             *)

Lit(t) == [k |-> "lit", tpl |-> "", n |-> 0, t |-> t]
\* fmt (no format call: a positional style)
PhBare(tpl) == [k |-> "ph", tpl |-> tpl, n |-> 0, t |-> ""]
\* fmt.format(offset)
PhNum(tpl, n) == [k |-> "ph", tpl |-> tpl, n |-> n, t |-> ""]
\* fmt.format(name)
PhName(tpl, name) == [k |-> "ph", tpl |-> tpl, n |-> 0, t |-> name]
\* f"{select}" of a Select instance
Repr(sel) == [k |-> "repr", tpl |-> "", n |-> 0, t |-> sel.table]

\* sep.join(parts), parts a sequence of token sequences
RECURSIVE JoinText(_, _)
JoinText(sep, parts) ==
    IF Len(parts) = 0 THEN <<>>
    ELSE IF Len(parts) = 1 THEN parts[1]
    ELSE parts[1] \o sep \o JoinText(sep, Tail(parts))

\* dict(pairs): a key keeps the place of its first insertion and the value
\* of its last one.  pairs is a sequence of [key, val].
RECURSIVE Dict(_)
Dict(pairs) ==
    IF Len(pairs) = 0 THEN <<>>
    ELSE LET d == Dict(SubSeq(pairs, 1, Len(pairs) - 1))
             p == pairs[Len(pairs)]
             at == {i \in 1..Len(d) : d[i].key = p.key}
         IN IF at = {} THEN Append(d, p)
            ELSE [i \in 1..Len(d) |-> IF i \in at THEN p ELSE d[i]]

DictKeys(d) == [i \in 1..Len(d) |-> d[i].key]
DictValues(d) == [i \in 1..Len(d) |-> d[i].val]

----------------------------------------------------------------------------
(* Field, Expression, Expressions                                          *)

Field(left, right) == [left |-> left, right |-> right]

\* a value that has no hash: a list
ListValue == "[v1]"
Hashable(x) == x # ListValue

\* Field.__post_init__: the exception it raises, or None.  The test builds
\* the set {self.left, self.right}, which hashes both members
Field_post_init(left, right) ==
    IF ~Hashable(left) \/ ~Hashable(right) THEN "TypeError"
    ELSE IF {left, right} = {Unset, Unset} THEN "SQLSyntaxError"
    ELSE None

\* Expression.__post_init__: the exception it raises, or None
Expression_post_init(field) ==
    IF field.left = Unset THEN "SQLSyntaxError" ELSE None

\* AbstractSQL.get_offset
get_offset(col, cur) == Len(col) + cur

\* Field.fetch_sql that drops the alias of a Field with a name
fetch_sql_left(f) ==
    IF f.left # Unset THEN <<Lit(f.left)>> ELSE <<Lit(f.right)>>

\* Field.fetch_sql
fetch_sql(f) ==
    IF f.left # Unset
    THEN IF f.right # Unset
         THEN <<Lit(f.left), Lit("AS"), Lit(f.right)>>
         ELSE <<Lit(f.left)>>
    ELSE <<Lit(f.right)>>

Expression(field, opcode, prefix) ==
    [field |-> field, opcode |-> opcode, prefix |-> prefix]

\* Expression.to_sql that names the placeholder and the Field without the
\* prefix
Expression_to_sql_noprefix(e, style, offset) ==
    LET st == StyleOrDefault(style)
        fmt == StyleValue(st)
        ph == IF st \in NameParamStyle THEN PhName(fmt, e.field.left)
              ELSE IF st \in NumParamStyle THEN PhNum(fmt, offset)
              ELSE PhBare(fmt)
    IN [key |-> e.field, val |-> <<Lit(e.field.left), Lit(e.opcode), ph>>]

\* Expression.to_sql: the (possibly renamed) Field and the fragment
Expression_to_sql(e, style, offset) ==
    LET st == StyleOrDefault(style)
        fmt == StyleValue(st)
        name == e.prefix \o e.field.left
        ph == IF st \in NameParamStyle THEN PhName(fmt, name)
              ELSE IF st \in NumParamStyle THEN PhNum(fmt, offset)
              ELSE PhBare(fmt)
        field == IF st \in NameParamStyle
                 THEN [e.field EXCEPT !.left = name]
                 ELSE e.field
    IN [key |-> field, val |-> <<Lit(e.field.left), Lit(e.opcode), ph>>]

\* Expressions.iter_sql: member i is rendered at offset + i - 1
iter_sql(exprs, style, offset) ==
    [i \in 1..Len(exprs) |-> Expression_to_sql(exprs[i], style, offset + i - 1)]

\* Expressions.fields_to_sql
fields_to_sql(exprs, style, offset) == Dict(iter_sql(exprs, style, offset))

\* Expressions.to_sql that emits the lead also when there is no fragment
Expressions_to_sql_lead(exprs, style, offset, lead) ==
    LET f2s == fields_to_sql(exprs, style, offset)
        where == JoinText(<<Lit("AND")>>, DictValues(f2s))
    IN [sql |-> <<Lit(lead)>> \o where, args |-> DictKeys(f2s)]

\* Expressions.to_sql
Expressions_to_sql(exprs, style, offset, lead) ==
    LET f2s == fields_to_sql(exprs, style, offset)
        where == JoinText(<<Lit("AND")>>, DictValues(f2s))
    IN [sql |-> IF where # <<>> THEN <<Lit(lead)>> \o where ELSE <<>>,
        args |-> DictKeys(f2s)]

\* Fields.mapping without the test of the name: an entry for ... too
Fields_mapping_all(fields) ==
    LET last(nm) == CHOOSE i \in 1..Len(fields) :
                        /\ fields[i].left = nm
                        /\ \A j \in 1..Len(fields) : fields[j].left = nm => j <= i
    IN [nm \in {fields[i].left : i \in 1..Len(fields)} |-> fields[last(nm)].right]

\* Fields.mapping: {x.left: x.right for x in fields if x.left is not ...};
\* the last field of a name gives the value
Fields_mapping(fields) ==
    LET named == {i \in 1..Len(fields) : fields[i].left # Unset}
        last(nm) == CHOOSE i \in named :
                        /\ fields[i].left = nm
                        /\ \A j \in named : fields[j].left = nm => j <= i
    IN [nm \in {fields[i].left : i \in named} |-> fields[last(nm)].right]

\* Fields.right
Fields_right(fields) == [i \in 1..Len(fields) |-> fields[i].right]

\* Arguments.for_sql: the dict Fields.mapping or the tuple Fields.right
Arguments_for_sql(a, style) ==
    IF StyleOrDefault(style) \in NameParamStyle
    THEN [type |-> "dict", value |-> Fields_mapping(a.fields)]
    ELSE [type |-> "tuple", value |-> Fields_right(a.fields)]

----------------------------------------------------------------------------
(* Join, the statements, CommonTableExpression                             *)

\* Join.filters is Optional[Expressions]
NoFilters == [isNone |-> TRUE, expressions |-> <<>>]
Filters(exprs) == [isNone |-> FALSE, expressions |-> exprs]

\* a Join.table that is a plain table name
Str(name) == [kind |-> "str", table |-> name]

\* BaseSQLStatement.table_name
table_name(s) ==
    IF s.schema # None THEN <<Lit(s.schema \o "." \o s.table)>>
    ELSE <<Lit(s.table)>>

\* Join.table_name: with a schema the result is a str (an f-string), also
\* when table is a Select; without one it is the table itself
Join_table_name(j) ==
    IF j.schema # None
    THEN [isSelect |-> FALSE,
          text |-> IF j.table.kind = "Select"
                   THEN <<Lit(j.schema \o "."), Repr(j.table)>>
                   ELSE <<Lit(j.schema \o "." \o j.table.table)>>]
    ELSE [isSelect |-> j.table.kind = "Select",
          text |-> IF j.table.kind = "Select"
                   THEN <<Repr(j.table)>>
                   ELSE <<Lit(j.table.table)>>]

\* Select.build_select
build_select(s) ==
    LET columns == JoinText(<<Lit(",")>>,
                            [i \in 1..Len(s.fields) |-> fetch_sql(s.fields[i])])
    IN <<Lit("SELECT")>> \o columns \o <<Lit("FROM")>> \o table_name(s)

\* _BaseWriteStatement.returns = None
NoReturns == [left |-> None, right |-> None]

\* _BaseWriteStatement.returning
returning(s) ==
    IF s.returns # NoReturns
    THEN <<Lit("RETURNING")>> \o fetch_sql(s.returns)
    ELSE <<>>

RECURSIVE Join_to_sql(_, _, _)
RECURSIVE Select_to_sql(_, _, _)
RECURSIVE build_joins_loop(_, _, _, _, _)

\* the loop of BaseSQLStatement.build_joins over the joins still to render:
\* the text so far, the caller's Arguments (extended in place), the offset
build_joins_loop(joins, style, offset, args, text) ==
    IF Len(joins) = 0 THEN [joins |-> text, args |-> args]
    ELSE LET r == Join_to_sql(Head(joins), style, offset)
         IN build_joins_loop(Tail(joins), style, offset + Len(r.args),
                             args \o r.args, text \o r.sql)

\* BaseSQLStatement.build_joins
build_joins(s, style, offset, args) ==
    build_joins_loop(s.joins, style, offset, args, <<>>)

\* Join.to_sql
Join_to_sql(j, style, offset) ==
    LET st == StyleOrDefault(style)
        alias == IF j.alias # None THEN <<Lit("AS"), Lit(j.alias)>> ELSE <<>>
        how == IF j.how # None THEN <<Lit(j.how)>> ELSE <<>>
        table == Join_table_name(j)
        \* the rendered text of a nested Select is bound to a local that the
        \* returned f-string does not use; only its Arguments are kept
        selargs == IF table.isSelect
                   THEN Select_to_sql(j.table, st, offset).args
                   ELSE <<>>
        \* the filters are rendered with no style argument, at `offset`
        filt == IF ~j.filters.isNone
                THEN Expressions_to_sql(j.filters.expressions, None, offset, "AND")
                ELSE [sql |-> <<>>, args |-> <<>>]
    IN [sql |-> how \o <<Lit("JOIN")>> \o table.text \o alias
                \o <<Lit("ON"), Lit(j.lkey)>> \o filt.sql,
        args |-> selargs \o filt.args]

\* Select.to_sql
Select_to_sql(s, style, offset) ==
    LET st == StyleOrDefault(style)
        select == build_select(s)
        w == Expressions_to_sql(s.filters, st, offset, "WHERE")
        off == get_offset(w.args, offset)
        j == build_joins(s, st, off, w.args)
    IN [sql |-> select \o j.joins \o w.sql, args |-> j.args]

\* Update.iter_columns
iter_columns(s, style, offset) ==
    [i \in 1..Len(s.fields) |->
        Expression_to_sql(Expression(s.fields[i], "=", "col"), style, offset + i - 1)]

\* Update.build_update
build_update(s, style, offset) ==
    LET f2s == Dict(iter_columns(s, style, offset))
        updates == JoinText(<<Lit(",")>>, DictValues(f2s))
    IN [sql |-> <<Lit("UPDATE")>> \o table_name(s) \o <<Lit("SET")>> \o updates,
        args |-> DictKeys(f2s)]

\* Update.to_sql
Update_to_sql(s, style, offset) ==
    LET st == StyleOrDefault(style)
        u == build_update(s, st, offset)
        off1 == get_offset(u.args, offset)
        w == Expressions_to_sql(s.filters, st, off1, "WHERE")
        args == u.args \o w.args
        \* get_offset over the merged Arguments, from the advanced offset
        off2 == get_offset(args, off1)
        j == build_joins(s, st, off2, args)
    IN [sql |-> u.sql \o j.joins \o w.sql \o returning(s), args |-> j.args]

\* Delete.to_sql: the style argument is overwritten by the default
Delete_to_sql(s, style, offset) ==
    LET st == default_style
        w == Expressions_to_sql(s.filters, st, offset, "WHERE")
        off == get_offset(w.args, offset)
        j == build_joins(s, st, off, w.args)
    IN [sql |-> <<Lit("DELETE"), Lit("FROM")>> \o table_name(s)
                \o j.joins \o w.sql \o returning(s),
        args |-> j.args]

\* f"{x}" of a name: the unset name ... reads Ellipsis
Format(x) == IF x = Unset THEN "Ellipsis" ELSE x

\* Insert._iter_fields: one placeholder for each field, numbered from offset
\* or named by the field's name
_iter_fields(fields, style, offset) ==
    [i \in 1..Len(fields) |->
        IF style \in NumParamStyle THEN <<PhNum(StyleValue(style), offset + i - 1)>>
        ELSE IF style \in NameParamStyle
             THEN <<PhName(StyleValue(style), fields[i].left)>>
        ELSE <<PhBare(StyleValue(style))>>]

\* Insert._fields_to_sql: with inject the right values, verbatim, in
\* parentheses; else the placeholders, in parentheses when there are any
_fields_to_sql(fields, style, offset, inject) ==
    IF inject
    THEN <<Lit("(")>>
            \o JoinText(<<Lit(",")>>, [i \in 1..Len(fields) |-> <<Lit(fields[i].right)>>])
            \o <<Lit(")")>>
    ELSE LET stmnts == JoinText(<<Lit(",")>>, _iter_fields(fields, style, offset))
         IN IF stmnts # <<>> THEN <<Lit("(")>> \o stmnts \o <<Lit(")")>> ELSE <<>>

\* build_insert with the offset moved past the columns also when the
\* columns are injected
build_insert_moved(s, style, offset, inject_columns) ==
    LET columns == [i \in 1..Len(s.fields) |->
                       Field("col" \o Format(s.fields[i].left), s.fields[i].left)]
        values == [i \in 1..Len(s.fields) |->
                      Field("val" \o Format(s.fields[i].left), s.fields[i].right)]
        insert_sql == _fields_to_sql(columns, style, offset, inject_columns)
        off == get_offset(columns, offset)
        values_sql == _fields_to_sql(values, style, off, FALSE)
        retvals == IF ~inject_columns THEN columns \o values ELSE values
    IN [sql |-> <<Lit("INSERT"), Lit("INTO")>> \o table_name(s) \o insert_sql
                \o <<Lit("VALUES")>> \o values_sql \o returning(s),
        args |-> retvals]

\* build_insert with the offset never moved past the columns
build_insert_unmoved(s, style, offset, inject_columns) ==
    LET columns == [i \in 1..Len(s.fields) |->
                       Field("col" \o Format(s.fields[i].left), s.fields[i].left)]
        values == [i \in 1..Len(s.fields) |->
                      Field("val" \o Format(s.fields[i].left), s.fields[i].right)]
        insert_sql == _fields_to_sql(columns, style, offset, inject_columns)
        values_sql == _fields_to_sql(values, style, offset, FALSE)
        retvals == IF ~inject_columns THEN columns \o values ELSE values
    IN [sql |-> <<Lit("INSERT"), Lit("INTO")>> \o table_name(s) \o insert_sql
                \o <<Lit("VALUES")>> \o values_sql \o returning(s),
        args |-> retvals]

\* Insert.build_insert
build_insert(s, style, offset, inject_columns) ==
    LET columns == [i \in 1..Len(s.fields) |->
                       Field("col" \o Format(s.fields[i].left), s.fields[i].left)]
        values == [i \in 1..Len(s.fields) |->
                      Field("val" \o Format(s.fields[i].left), s.fields[i].right)]
        insert_sql == _fields_to_sql(columns, style, offset, inject_columns)
        off == IF ~inject_columns THEN get_offset(columns, offset) ELSE offset
        values_sql == _fields_to_sql(values, style, off, FALSE)
        retvals == IF ~inject_columns THEN columns \o values ELSE values
    IN [sql |-> <<Lit("INSERT"), Lit("INTO")>> \o table_name(s) \o insert_sql
                \o <<Lit("VALUES")>> \o values_sql \o returning(s),
        args |-> retvals]

\* Insert.to_sql
Insert_to_sql(s, style, offset, inject_columns) ==
    build_insert(s, StyleOrDefault(style), offset, inject_columns)

\* the exception Insert.to_sql ends with, or None: str.join in
\* _fields_to_sql raises TypeError on a column name that is not a str
Insert_raises(s, inject_columns) ==
    IF inject_columns /\ \E i \in 1..Len(s.fields) : s.fields[i].left = Unset
    THEN "TypeError" ELSE None

\* the exception Update.to_sql ends with, or None: iter_columns builds
\* Expression(field, prefix="col"), whose __post_init__ raises
\* SQLSyntaxError on a field without a name
Update_raises(s) ==
    IF \E i \in 1..Len(s.fields) : s.fields[i].left = Unset
    THEN "SQLSyntaxError" ELSE None

\* to_sql of a statement, by its class
to_sql(s, style, offset) ==
    CASE s.kind = "Select" -> Select_to_sql(s, style, offset)
      [] s.kind = "Update" -> Update_to_sql(s, style, offset)
      [] s.kind = "Delete" -> Delete_to_sql(s, style, offset)

\* CommonTableExpression.to_sql, below the rendering of self.expression:
\* e is (cte, exprargs), and self.statement is rendered past exprargs
CTE_statement(c, st, offset, e) ==
    [cte |-> e, stmt |-> to_sql(c.statement, st, get_offset(e.args, offset))]

\* the two renderings CommonTableExpression.to_sql is made of
CTE_parts(c, style, offset) ==
    CTE_statement(c, StyleOrDefault(style), offset,
                  to_sql(c.expression, StyleOrDefault(style), offset))

\* the text and the merged Arguments of the two renderings
CTE_result(c, p) ==
    [sql |-> <<Lit("WITH"), Lit(c.alias), Lit("AS"), Lit("(")>> \o p.cte.sql
                \o <<Lit(")")>> \o p.stmt.sql,
     args |-> p.cte.args \o p.stmt.args]

\* CommonTableExpression.to_sql
CTE_to_sql(c, style, offset) == CTE_result(c, CTE_parts(c, style, offset))

----------------------------------------------------------------------------
(* The objects a client builds: every object of at most MaxSize fields and *)
(* expressions over two columns and two values.                              *)
(* The column "cola" is "col" + "a", the name Update gives the SET          *)
(* placeholder of column "a".                                              *)

Cols == {"a", "cola"}
Vals == {"v1", "v2"}
Ops == {"="}

\* Fields with a name and a value: SET fields, and the fields of filters
ValueFields == {Field(c, v) : c \in Cols, v \in Vals}
\* the three shapes of a Field to fetch: left AS right, left, right
FetchFields == {Field("a", "v1"), Field("a", Unset), Field(Unset, "v1")}
\* Expression(field, opcode): the prefix defaults to ""
Exprs == {Expression(f, op, "") : f \in ValueFields, op \in Ops}

SeqsOfLen(S, k) == [1..k -> S]

Select(fields, filters, joins) ==
    [kind |-> "Select", table |-> "t", schema |-> None,
     filters |-> filters, fields |-> fields, joins |-> joins]

Update(fields, filters, joins, returns) ==
    [kind |-> "Update", table |-> "t", schema |-> "s",
     filters |-> filters, fields |-> fields, joins |-> joins, returns |-> returns]

Delete(filters, joins, returns) ==
    [kind |-> "Delete", table |-> "t", schema |-> None,
     filters |-> filters, fields |-> <<>>, joins |-> joins, returns |-> returns]

Join(table, filters) ==
    [kind |-> "Join", table |-> table, lkey |-> "l", rkey |-> "r",
     schema |-> None, alias |-> None, how |-> "LEFT", filters |-> filters]

CommonTableExpression(expression, statement) ==
    [kind |-> "CTE", expression |-> expression, statement |-> statement,
     alias |-> "w"]

Expressions(exprs) == [kind |-> "Expressions", expressions |-> exprs]

Insert(fields, returns) ==
    [kind |-> "Insert", table |-> "t", schema |-> "s",
     filters |-> <<>>, fields |-> fields, joins |-> <<>>, returns |-> returns]

\* the tables of a Join that hold m expressions: a name, or a nested Select
JoinTables(m) ==
    IF m = 0 THEN {Str("j"), Select(<<>>, <<>>, <<>>)}
    ELSE {Select(<<>>, ws, <<>>) : ws \in SeqsOfLen(Exprs, m)}

JoinFilters(n) ==
    IF n = 0 THEN {NoFilters}
    ELSE {Filters(ws) : ws \in SeqsOfLen(Exprs, n)}

\* the Joins that hold k expressions, nested Select and filters together
JoinsOfSize(k) ==
    UNION {{Join(tbl, flt) : tbl \in JoinTables(m), flt \in JoinFilters(k - m)} :
           m \in {m \in 0..k : m <= MaxLen /\ k - m <= MaxLen}}

\* the sequences of n Joins that hold k expressions together
RECURSIVE JoinSeqs(_, _)
JoinSeqs(n, k) ==
    IF n = 0 THEN IF k = 0 THEN {<<>>} ELSE {}
    ELSE UNION {{<<j>> \o rest : j \in JoinsOfSize(i), rest \in JoinSeqs(n - 1, k - i)} :
                i \in 0..k}

\* the join tuples of a statement that hold k expressions
JoinTuples(k) == UNION {JoinSeqs(n, k) : n \in 0..MaxJoins}

\* RETURNING nothing, or RETURNING id; a returns Field counts in the size
Returns(n) == IF n = 0 THEN {NoReturns} ELSE {Field("id", Unset)}

\* <<i, j, k, r>>: i fields, j filters, k expressions in joins, r returns
\* Fields: the shapes of the statements that hold at most `size` Fields
Shapes(size) ==
    {s \in (0..MaxLen) \X (0..MaxLen) \X (0..size) \X (0..1) :
        s[1] + s[2] + s[3] + s[4] <= size}

Selects(size) ==
    UNION {{Select(fs, ws, js) : fs \in SeqsOfLen(FetchFields, s[1]),
                                 ws \in SeqsOfLen(Exprs, s[2]),
                                 js \in JoinTuples(s[3])} :
           s \in {s \in Shapes(size) : s[4] = 0}}

Updates(size) ==
    UNION {{Update(fs, ws, js, r) : fs \in SeqsOfLen(ValueFields, s[1]),
                                    ws \in SeqsOfLen(Exprs, s[2]),
                                    js \in JoinTuples(s[3]),
                                    r \in Returns(s[4])} : s \in Shapes(size)}

Deletes(size) ==
    UNION {{Delete(ws, js, r) : ws \in SeqsOfLen(Exprs, s[2]),
                                js \in JoinTuples(s[3]),
                                r \in Returns(s[4])} :
           s \in {s \in Shapes(size) : s[1] = 0}}

\* the statements without joins and without RETURNING of exactly `size`
\* fields and expressions
Plain(size) ==
    UNION {{Select(fs, ws, <<>>) : fs \in SeqsOfLen(FetchFields, s[1]),
                                   ws \in SeqsOfLen(Exprs, s[2])}
           \cup {Update(fs, ws, <<>>, NoReturns) : fs \in SeqsOfLen(ValueFields, s[1]),
                                                   ws \in SeqsOfLen(Exprs, s[2])}
           \cup {Delete(ws, <<>>, NoReturns) : ws \in IF s[1] = 0 THEN SeqsOfLen(Exprs, s[2])
                                                      ELSE {}} :
           s \in {s \in (0..MaxLen) \X (0..MaxLen) : s[1] + s[2] = size}}

\* a CTE whose body is a statement without joins and whose dependent
\* statement is a Select of the CTE with filters
CTEs(size) ==
    UNION {{CommonTableExpression(e, Select(<<>>, ws, <<>>)) :
                e \in Plain(p[1]), ws \in SeqsOfLen(Exprs, p[2])} :
           p \in {p \in (0..size) \X (0..MaxLen) : p[1] + p[2] <= size}}

\* a bare Expressions, as a client renders one on its own
ExpressionLists(size) ==
    UNION {{Expressions(ws) : ws \in SeqsOfLen(Exprs, n)} : n \in 0..size}

Joins(size) == UNION {JoinsOfSize(k) : k \in 0..size}

Arguments(fields) == [kind |-> "Arguments", fields |-> fields]

\* the Arguments of at most `size` Fields, Fields without a name or without
\* a value among them
ArgumentLists(size) ==
    UNION {{Arguments(fs) : fs \in SeqsOfLen(ValueFields \cup FetchFields, n)} :
           n \in 0..size}

\* the Expressions a client renders on their own: a Field with a name, any
\* operator, with and without a prefix
SingleExpressions ==
    {Expression(f, op, prefix) : f \in ValueFields \cup {Field("a", Unset)},
                                 op \in {"=", ">"}, prefix \in {"", "col"}}

\* the fields of a write statement: any Field, one without a name included
WriteFields == ValueFields \cup {Field(Unset, "v1")}

\* the Inserts of at most `size` fields, a returns Field counted
Inserts(size) ==
    UNION {{Insert(fs, r) : fs \in SeqsOfLen(WriteFields, s[1]), r \in Returns(s[4])} :
           s \in {s \in Shapes(size) : s[2] = 0 /\ s[3] = 0}}

\* the Inserts, and the Updates without joins, of any fields
WriteStatements(size) ==
    Inserts(size)
    \cup UNION {{Update(fs, ws, <<>>, NoReturns) : fs \in SeqsOfLen(WriteFields, s[1]),
                                                  ws \in SeqsOfLen(Exprs, s[2])} :
                s \in {s \in Shapes(size) : s[3] = 0 /\ s[4] = 0}}

----------------------------------------------------------------------------
(* data_to_fields.  A value is written as Python writes it: "bar" a str,   *)
(* "1" the int 1, "True" the bool, "None", "..." the Ellipsis.  A data     *)
(* source is [type, items]: the items of a dict, a namedtuple or a         *)
(* dataclass are [key, val] entries, those of a list are its elements,     *)
(* each a collection [type, items] or an int.                              *)

\* type(val).__name__
TypeOf(val) ==
    CASE val = "1" -> "int"
      [] val = "True" -> "bool"
      [] val = "None" -> "NoneType"
      [] val = Unset -> "ellipsis"
      [] OTHER -> "str"

\* isinstance(val, t): bool is a subclass of int
IsInstance(val, t) == TypeOf(val) = t \/ (TypeOf(val) = "bool" /\ t = "int")

\* val == other: True == 1
PyEq(val, other) == val = other \/ {val, other} = {"1", "True"}

\* an exclude argument: a value or a type
ExcludeValue(v) == [type |-> FALSE, v |-> v]
ExcludeType(t) == [type |-> TRUE, v |-> t]
\* util.Nothing, the class: no value is an instance of it
util_Nothing == ExcludeType("Nothing")

\* DictFactory.factory._cmp
_cmp(val, exclude) ==
    IF exclude.type THEN IsInstance(val, exclude.v) ELSE PyEq(val, exclude.v)

\* the (x, y) that `for x, y in obj` unpacks from the elements of a list
Unpacked(items) ==
    [i \in 1..Len(items) |-> [key |-> items[i].items[1], val |-> items[i].items[2]]]

\* DictFactory.factory that keeps the excluded entries and drops the others
DictFactory_factory_kept(dct, exclude) ==
    IF dct.type = "dict" /\ exclude = util_Nothing THEN dct.items
    ELSE LET pairs == IF dct.type = "dict" THEN dct.items ELSE Unpacked(dct.items)
             keep(p) == _cmp(p.val, exclude)
         IN Dict(SelectSeq(pairs, keep))

\* DictFactory.factory that builds the dict from the last entry to the first
DictFactory_factory_reversed(dct, exclude) ==
    IF dct.type = "dict" /\ exclude = util_Nothing THEN dct.items
    ELSE LET pairs == IF dct.type = "dict" THEN dct.items ELSE Unpacked(dct.items)
             keep(p) == _cmp(p.val, exclude) = FALSE
             kept == SelectSeq(pairs, keep)
         IN Dict([i \in 1..Len(kept) |-> kept[Len(kept) + 1 - i]])

\* DictFactory.factory: the dict, as its entries in insertion order
DictFactory_factory(dct, exclude) ==
    IF dct.type = "dict" /\ exclude = util_Nothing THEN dct.items
    ELSE LET pairs == IF dct.type = "dict" THEN dct.items ELSE Unpacked(dct.items)
             keep(p) == _cmp(p.val, exclude) = FALSE
         IN Dict(SelectSeq(pairs, keep))

\* dict_filter_factory(exclude=exclude): the exclude that the factory it
\* returns is bound to; with no exclude given nothing is excluded
dict_filter_factory(exclude) ==
    IF exclude = ExcludeValue(Unset) THEN util_Nothing ELSE exclude

\* isinstance(x, Collection)
IsCollection(x) == x.type \in {"dict", "list", "tuple", "str", "namedtuple"}

\* bool(data)
Truthy(data) ==
    CASE data.type = "NoneType" -> FALSE
      [] data.type = "dataclass" -> TRUE
      [] OTHER -> Len(data.items) > 0

\* the entries of a dataclass as dataclasses.asdict hands them to the
\* dict_factory: a list of (name, value) tuples
AsTuples(entries) ==
    [type |-> "list",
     items |-> [i \in 1..Len(entries) |->
                  [type |-> "tuple", items |-> <<entries[i].key, entries[i].val>>]]]

\* Fields((Field(x, y) for x, y in filtered.items())): the first exception
\* of a Field.__post_init__, or the Fields
FieldsOf(filtered) ==
    LET bad == {i \in 1..Len(filtered) :
                   Field_post_init(filtered[i].key, filtered[i].val) # None}
    IN IF bad # {}
       THEN [error |-> Field_post_init(filtered[CHOOSE i \in bad : \A j \in bad : i <= j].key,
                                       filtered[CHOOSE i \in bad : \A j \in bad : i <= j].val),
             fields |-> <<>>]
       ELSE [error |-> None,
             fields |-> [i \in 1..Len(filtered) |-> Field(filtered[i].key, filtered[i].val)]]

\* data_to_fields
data_to_fields(data, exclude) ==
    IF Truthy(data)
    THEN IF data.type = "dataclass"
         THEN FieldsOf(DictFactory_factory(AsTuples(data.items), dict_filter_factory(exclude)))
         ELSE IF data.type = "namedtuple"
         THEN FieldsOf(DictFactory_factory([type |-> "dict", items |-> data.items],
                                           dict_filter_factory(exclude)))
         ELSE IF \/ data.type = "dict"
                 \/ /\ IsCollection(data)
                    /\ \A i \in 1..Len(data.items) :
                          IsCollection(data.items[i]) /\ Len(data.items[i].items) = 2
         THEN FieldsOf(DictFactory_factory(data, dict_filter_factory(exclude)))
         ELSE [error |-> "SQLValueError", fields |-> <<>>]
    ELSE [error |-> None, fields |-> <<>>]

----------------------------------------------------------------------------
(* The state machine: a client builds one object, may set the process-wide *)
(* default style, and renders the object once with to_sql(style, offset).  *)

Nothing == [sql |-> <<>>, args |-> <<>>]
\* nothing is built yet
NoObject == [kind |-> None]
NoCall == [style |-> None, offset |-> 0, lead |-> None]

Init(objects) ==
    /\ DEFAULT = "NUM"
    /\ obj \in objects
    /\ pc = "built"
    /\ call = NoCall
    /\ out = Nothing

\* default_style(style)
SetDefaultStyle(style) ==
    /\ pc = "built"
    /\ DEFAULT' = style
    /\ UNCHANGED <<obj, pc, call, out>>

\* a to_sql call returns `result`
Rendered(style, offset, lead, result) ==
    /\ pc = "built"
    /\ pc' = "rendered"
    /\ call' = [style |-> style, offset |-> offset, lead |-> lead]
    /\ out' = result
    /\ UNCHANGED <<DEFAULT, obj>>

SelectToSql(style, offset) ==
    Rendered(style, offset, None, Select_to_sql(obj, style, offset))

\* a to_sql call ends with the exception `error`
Raised(style, offset, error) ==
    /\ pc = "built"
    /\ pc' = "raised"
    /\ call' = [style |-> style, offset |-> offset, lead |-> None]
    /\ out' = [error |-> error]
    /\ UNCHANGED <<DEFAULT, obj>>

UpdateToSql(style, offset) ==
    IF Update_raises(obj) # None
    THEN Raised(style, offset, Update_raises(obj))
    ELSE Rendered(style, offset, None, Update_to_sql(obj, style, offset))

ExpressionToSql(style, offset) ==
    Rendered(style, offset, None, Expression_to_sql(obj, style, offset))

ForSql(style) ==
    Rendered(style, 0, None, Arguments_for_sql(obj, style))

\* data_to_fields(data, exclude)
DataToFields(data, exclude) ==
    /\ pc = "start"
    /\ call' = [data |-> data, exclude |-> exclude]
    /\ IF data_to_fields(data, exclude).error # None
       THEN /\ pc' = "raised"
            /\ out' = [error |-> data_to_fields(data, exclude).error]
       ELSE /\ pc' = "returned"
            /\ out' = [fields |-> data_to_fields(data, exclude).fields]
    /\ UNCHANGED <<DEFAULT, obj>>

\* Field(left, right)
NewField(left, right) ==
    /\ pc = "start"
    /\ call' = [class |-> "Field", left |-> left, right |-> right]
    /\ IF Field_post_init(left, right) # None
       THEN /\ pc' = "raised"
            /\ out' = [error |-> Field_post_init(left, right)]
            /\ obj' = obj
       ELSE /\ pc' = "built"
            /\ obj' = Field(left, right)
            /\ out' = out
    /\ UNCHANGED DEFAULT

\* Expression(field, opcode, prefix) on the Field just built
NewExpression(opcode, prefix) ==
    /\ pc = "built" /\ call.class = "Field"
    /\ call' = [class |-> "Expression", field |-> obj, opcode |-> opcode,
                prefix |-> prefix]
    /\ IF Expression_post_init(obj) # None
       THEN /\ pc' = "raised"
            /\ out' = [error |-> Expression_post_init(obj)]
            /\ obj' = obj
       ELSE /\ pc' = "built"
            /\ obj' = Expression(obj, opcode, prefix)
            /\ out' = out
    /\ UNCHANGED DEFAULT

InsertToSql(style, offset, inject_columns) ==
    /\ pc = "built"
    /\ call' = [style |-> style, offset |-> offset, lead |-> None,
                inject_columns |-> inject_columns]
    /\ IF Insert_raises(obj, inject_columns) # None
       THEN /\ pc' = "raised"
            /\ out' = [error |-> Insert_raises(obj, inject_columns)]
       ELSE /\ pc' = "rendered"
            /\ out' = Insert_to_sql(obj, style, offset, inject_columns)
    /\ UNCHANGED <<DEFAULT, obj>>

DeleteToSql(style, offset) ==
    Rendered(style, offset, None, Delete_to_sql(obj, style, offset))

JoinToSql(style, offset) ==
    Rendered(style, offset, None, Join_to_sql(obj, style, offset))

CTEToSql(style, offset) ==
    Rendered(style, offset, None, CTE_to_sql(obj, style, offset))

ExpressionsToSql(style, offset, lead) ==
    Rendered(style, offset, lead,
             Expressions_to_sql(obj.expressions, style, offset, lead))

Styles == ParamStyleT \cup {None}
Offsets == 1..MaxOffset
Leads == {"WHERE", "AND"}

\* One specification for each class of object: the client builds an object
\* of the class, sets the default style or not, and renders the object.

NextSelect ==
    \/ \E style \in ParamStyleT : SetDefaultStyle(style)
    \/ \E style \in Styles, offset \in Offsets : SelectToSql(style, offset)

SpecSelect == Init(Selects(MaxSize)) /\ [][NextSelect]_vars

NextUpdate ==
    \/ \E style \in ParamStyleT : SetDefaultStyle(style)
    \/ \E style \in Styles, offset \in Offsets : UpdateToSql(style, offset)

SpecUpdate == Init(Updates(MaxSize)) /\ [][NextUpdate]_vars

NextDelete ==
    \/ \E style \in ParamStyleT : SetDefaultStyle(style)
    \/ \E style \in Styles, offset \in Offsets : DeleteToSql(style, offset)

SpecDelete == Init(Deletes(MaxSize)) /\ [][NextDelete]_vars

NextJoin ==
    \/ \E style \in ParamStyleT : SetDefaultStyle(style)
    \/ \E style \in Styles, offset \in Offsets : JoinToSql(style, offset)

SpecJoin == Init(Joins(MaxSize)) /\ [][NextJoin]_vars

NextCTE ==
    \/ \E style \in ParamStyleT : SetDefaultStyle(style)
    \/ \E style \in Styles, offset \in Offsets : CTEToSql(style, offset)

SpecCTE == Init(CTEs(MaxSize)) /\ [][NextCTE]_vars

NextExpressions ==
    \/ \E style \in ParamStyleT : SetDefaultStyle(style)
    \/ \E style \in Styles, offset \in Offsets, lead \in Leads :
          ExpressionsToSql(style, offset, lead)

SpecExpressions == Init(ExpressionLists(MaxSize)) /\ [][NextExpressions]_vars

NextExpression ==
    \/ \E style \in ParamStyleT : SetDefaultStyle(style)
    \/ \E style \in Styles, offset \in Offsets : ExpressionToSql(style, offset)

SpecExpression == Init(SingleExpressions) /\ [][NextExpression]_vars

NextArguments ==
    \/ \E style \in ParamStyleT : SetDefaultStyle(style)
    \/ \E style \in Styles : ForSql(style)

SpecArguments == Init(ArgumentLists(MaxSize)) /\ [][NextArguments]_vars

\* construction: a client builds a Field of any name and value, and then
\* an Expression on it
CmpOps == {"=", ">", ">=", "<", "<=", "<>"}
Prefixes == {"", "col", "val"}

InitConstruct ==
    /\ DEFAULT = "NUM"
    /\ obj = NoObject
    /\ pc = "start"
    /\ call = NoCall
    /\ out = Nothing

NextConstruct ==
    \/ \E left \in Cols \cup {Unset}, right \in Vals \cup {Unset, ListValue} :
          NewField(left, right)
    \/ \E opcode \in CmpOps, prefix \in Prefixes : NewExpression(opcode, prefix)

SpecConstruct == InitConstruct /\ [][NextConstruct]_vars

\* the data sources of data_to_fields
DataNames == {"foo", "baz"}
DataVals == {"bar", "1", "True", "None", Unset}
Entry(name, val) == [key |-> name, val |-> val]
Pair(name, val) == [type |-> "tuple", items |-> <<name, val>>]

\* the entries of a dict, a namedtuple or a dataclass: no name twice
EntryLists(n) ==
    {es \in SeqsOfLen({Entry(nm, v) : nm \in DataNames, v \in DataVals}, n) :
        \A i, j \in 1..n : i # j => es[i].key # es[j].key}

\* the elements of a list: pairs, and ('foo',), 'foo', 'ab', 5
Elements ==
    {Pair(nm, v) : nm \in DataNames, v \in DataVals}
    \cup {[type |-> "tuple", items |-> <<"foo">>],
          [type |-> "str", items |-> <<"f", "o", "o">>],
          [type |-> "str", items |-> <<"a", "b">>],
          [type |-> "int", items |-> <<>>]}

DataSources ==
    {[type |-> "NoneType", items |-> <<>>]}
    \cup UNION {{[type |-> t, items |-> es] : t \in {"dict", "namedtuple", "dataclass"},
                                             es \in EntryLists(n)} : n \in 0..MaxLen}
    \cup UNION {{[type |-> "list", items |-> es] : es \in SeqsOfLen(Elements, n)} :
                n \in 0..MaxLen}

\* no exclude given (the default, ...), a value, a type
NoExclude == ExcludeValue(Unset)
Excludes == {NoExclude, ExcludeValue("None"), ExcludeValue("1"),
             ExcludeType("int"), ExcludeType("str")}

InitData ==
    /\ DEFAULT = "NUM"
    /\ obj = NoObject
    /\ pc = "start"
    /\ call = NoCall
    /\ out = Nothing

NextData == \E data \in DataSources, exclude \in Excludes : DataToFields(data, exclude)

SpecData == InitData /\ [][NextData]_vars

NextInsert ==
    \/ \E style \in ParamStyleT : SetDefaultStyle(style)
    \/ \E style \in Styles, offset \in Offsets, inject_columns \in BOOLEAN :
          InsertToSql(style, offset, inject_columns)

SpecInsert == Init(Inserts(MaxSize)) /\ [][NextInsert]_vars

\* the write statements: an Insert or an Update is built and rendered
NextWrite ==
    \/ \E style \in ParamStyleT : SetDefaultStyle(style)
    \/ \E style \in Styles, offset \in Offsets, inject_columns \in BOOLEAN :
          obj.kind = "Insert" /\ InsertToSql(style, offset, inject_columns)
    \/ \E style \in Styles, offset \in Offsets :
          obj.kind = "Update" /\ UpdateToSql(style, offset)

SpecWrite == Init(WriteStatements(MaxSize)) /\ [][NextWrite]_vars


----------------------------------------------------------------------------
(* Reading the emitted text.                                               *)

IsPh(tok) == tok.k = "ph"
\* the placeholders of a text, left to right
Placeholders(sql) == SelectSeq(sql, IsPh)
IsNumPh(tok) == tok.k = "ph" /\ tok.n > 0
\* the numbers of the numbered placeholders of a text, left to right
PhNumbers(sql) ==
    LET ph == SelectSeq(sql, IsNumPh) IN [i \in 1..Len(ph) |-> ph[i].n]
Range(seq) == {seq[i] : i \in 1..Len(seq)}

\* tok is the placeholder that `style` gives for the number n or the name nm
PhInStyle(tok, style) ==
    /\ tok.k = "ph"
    /\ tok.tpl = StyleValue(style)
    /\ (style \in NumParamStyle) = (tok.n > 0)
    /\ (style \in NameParamStyle) = (tok.t # "")

\* the first place of a literal among `words` at or after `from`, else Len + 1
ClauseStart(sql, words, from) ==
    LET at == {i \in from..Len(sql) : sql[i].k = "lit" /\ sql[i].t \in words}
    IN IF at = {} THEN Len(sql) + 1 ELSE CHOOSE i \in at : \A j \in at : i <= j

\* the text from the first of `words` up to the first of `stops` after it
Clause(sql, words, stops) ==
    LET b == ClauseStart(sql, words, 1)
    IN SubSeq(sql, b, ClauseStart(sql, stops, b + 1) - 1)

SetClause(sql) == Clause(sql, {"SET"}, {"LEFT", "JOIN", "WHERE", "RETURNING"})
JoinClauses(sql) == Clause(sql, {"LEFT", "JOIN"}, {"WHERE", "RETURNING", ")"})
WhereClause(sql) == Clause(sql, {"WHERE"}, {"RETURNING", ")"})

\* the style the call resolved to
CallStyle == StyleOrDefault(call.style)
\* offset, offset + 1, ..., offset + n - 1
Consecutive(offset, n) == [i \in 1..n |-> offset + i - 1]

\* no two members of the sequence are equal
Distinct(seq) == \A i, j \in 1..Len(seq) : i # j => seq[i] # seq[j]

\* a statement none of whose clauses repeats a field, whose joins are on
\* named tables: dict() merges nothing and no nested Select is rendered
Regular(s) ==
    /\ Distinct(s.fields)
    /\ Distinct([i \in 1..Len(s.filters) |-> s.filters[i].field])
    /\ \A i \in 1..Len(s.joins) :
          /\ s.joins[i].table.kind = "str"
          /\ Distinct([k \in 1..Len(s.joins[i].filters.expressions) |->
                          s.joins[i].filters.expressions[k].field])

----------------------------------------------------------------------------
(* C1: an Update rendered in a numbered style at offset o uses exactly the *)
(* placeholder numbers o .. o + len(arguments) - 1, each once: the SET     *)
(* fields first, then the WHERE expressions, then the join filters.        *)
(* Stated for the Updates whose clauses repeat no field and whose joins    *)
(* are on named tables, rendered in the default style: a case of the       *)
(* claim in which neither dict() nor Join.to_sql's own style is involved.  *)
C1_UpdateNumbersContiguous ==
    (/\ pc = "rendered" /\ CallStyle \in NumParamStyle
     /\ CallStyle = DEFAULT /\ Regular(obj)) =>
        /\ Len(Placeholders(out.sql)) = Len(out.args)
        /\ PhNumbers(SetClause(out.sql)) \o PhNumbers(WhereClause(out.sql))
              \o PhNumbers(JoinClauses(out.sql))
           = Consecutive(call.offset, Len(out.args))

(* C2: in a Select rendered in a numbered style the placeholder numbers    *)
(* are pairwise distinct and strictly increase in the order of the text.   *)
C2_SelectNumbersIncreaseInText ==
    (pc = "rendered" /\ CallStyle \in NumParamStyle) =>
        LET nums == PhNumbers(out.sql)
        IN \A i, j \in 1..Len(nums) : i < j => nums[i] < nums[j]

\* the text after the first literal among `words`
After(sql, words) == SubSeq(sql, ClauseStart(sql, words, 1) + 1, Len(sql))

\* the body of a rendered CTE, between "(" and ")", and the text after it
CTEBody(sql) == SubSeq(sql, ClauseStart(sql, {"("}, 1) + 1, ClauseStart(sql, {")"}, 1) - 1)
CTEDependent(sql) == After(sql, {")"})

(* C3: a CTE rendered in a numbered style at offset o renders its          *)
(* dependent statement at o + (argument count of the CTE body), and no     *)
(* placeholder number is in both the body's text and the dependent         *)
(* statement's text.                                                       *)
C3_CTENoSharedNumber ==
    (pc = "rendered" /\ CallStyle \in NumParamStyle) =>
        LET k == Len(to_sql(obj.expression, CallStyle, call.offset).args)
        IN /\ CTEDependent(out.sql)
                = to_sql(obj.statement, CallStyle, call.offset + k).sql
           /\ Range(PhNumbers(CTEBody(out.sql)))
                \cap Range(PhNumbers(CTEDependent(out.sql))) = {}

\* the fields of the filters of a Join
JoinFilterFields(j) ==
    [i \in 1..Len(j.filters.expressions) |-> j.filters.expressions[i].field]

\* a rendered Join: the text in the place of the table name, between JOIN
\* and ON, and the filter clause, after ON <lkey>
JoinTablePart(sql) == SubSeq(sql, ClauseStart(sql, {"JOIN"}, 1) + 1, ClauseStart(sql, {"ON"}, 1) - 1)
JoinFilterPart(sql) == SubSeq(sql, ClauseStart(sql, {"ON"}, 1) + 2, Len(sql))

\* a Join on a nested Select that has filters of its own
NestedWithFilters(j) ==
    /\ j.table.kind = "Select"
    /\ ~j.filters.isNone
    /\ Len(j.filters.expressions) > 0

(* C4: for a Join on a nested Select with k arguments that also has        *)
(* filters, rendered in a numbered style at offset o, the nested Select's  *)
(* placeholders are numbered o .. o+k-1 and the Join's filter placeholders *)
(* start at o+k, so the two share no number.  Stated for the Joins whose   *)
(* nested Select and whose filters repeat no field, rendered in the        *)
(* default style.                                                          *)
C4_JoinFiltersAfterNestedSelect ==
    (/\ pc = "rendered" /\ CallStyle \in NumParamStyle /\ CallStyle = DEFAULT
     /\ NestedWithFilters(obj) /\ Regular(obj.table)
     /\ Distinct(JoinFilterFields(obj))) =>
        LET sel == Select_to_sql(obj.table, CallStyle, call.offset)
            k == Len(sel.args)
            f == PhNumbers(JoinFilterPart(out.sql))
        IN /\ PhNumbers(sel.sql) = Consecutive(call.offset, k)
           /\ f # <<>>
           /\ f[1] = call.offset + k
           /\ Range(PhNumbers(sel.sql)) \cap Range(f) = {}

(* C5: a Join on a nested Select emits the Select's rendered text in the   *)
(* place of the table name, returns the Select's Arguments followed by its *)
(* own filter Arguments, and so has one placeholder per returned argument. *)
C5_JoinEmitsNestedSelect ==
    (pc = "rendered" /\ obj.table.kind = "Select") =>
        LET sel == Select_to_sql(obj.table, CallStyle, call.offset)
        IN /\ JoinTablePart(out.sql) = sel.sql
           /\ SubSeq(out.args, 1, Len(sel.args)) = sel.args
           /\ Len(out.args) = Len(sel.args) + Len(Placeholders(JoinFilterPart(out.sql)))
           /\ Len(Placeholders(out.sql)) = Len(out.args)

(* C6: Join.to_sql(style, offset) on a Join with filters renders the       *)
(* filter clause led by AND, every filter placeholder in the caller's      *)
(* style, also when it is not the process-wide default, and the first      *)
(* filter numbered offset in a numbered style.  Stated for the Joins whose *)
(* filters repeat no field.                                                *)
C6_JoinFiltersInCallerStyle ==
    (/\ pc = "rendered" /\ call.style # None
     /\ ~obj.filters.isNone /\ Len(obj.filters.expressions) > 0
     /\ Distinct(JoinFilterFields(obj))) =>
        LET f == JoinFilterPart(out.sql)
            ph == Placeholders(f)
        IN /\ f # <<>> /\ f[1] = Lit("AND")
           /\ \A i \in 1..Len(ph) : PhInStyle(ph[i], call.style)
           /\ call.style \in NumParamStyle => (ph # <<>> /\ ph[1].n = call.offset)

\* the fields of a sequence of expressions
ExprFields(exprs) == [i \in 1..Len(exprs) |-> exprs[i].field]

(* C7: Delete.to_sql(style, offset) renders every WHERE placeholder in the *)
(* style the caller passes, for each of the six styles, also when it is    *)
(* not the process-wide default, and the returned Arguments begin with the *)
(* filters' fields.  Stated for the Deletes whose filters repeat no field. *)
C7_DeleteWhereInCallerStyle ==
    (/\ pc = "rendered" /\ call.style # None
     /\ obj.filters # <<>> /\ Distinct(ExprFields(obj.filters))) =>
        LET ph == Placeholders(WhereClause(out.sql))
        IN /\ Len(ph) = Len(obj.filters)
           /\ \A i \in 1..Len(ph) : PhInStyle(ph[i], call.style)
           /\ SubSeq(out.args, 1, Len(obj.filters)) = ExprFields(obj.filters)

IsAnd(tok) == tok = Lit("AND")

(* C8: an Expressions of n >= 1 members, whatever their fields and the     *)
(* style, members that share column and value included, renders a clause   *)
(* with exactly n - 1 AND separators after its lead, and returns exactly n *)
(* Arguments, the members' fields in member order.                         *)
C8_ExpressionsSeparatorsAndArgs ==
    (pc = "rendered" /\ Len(obj.expressions) >= 1) =>
        /\ out.sql # <<>>
        /\ Len(SelectSeq(Tail(out.sql), IsAnd)) = Len(obj.expressions) - 1
        /\ Len(out.args) = Len(obj.expressions)
        /\ out.args = ExprFields(obj.expressions)

\* the column list of a rendered Select, between SELECT and FROM
ColumnList(sql) == SubSeq(sql, 2, ClauseStart(sql, {"FROM"}, 1) - 1)

(* C9: the SELECT clause of a Select with an empty field list has `*` as   *)
(* its column list; with a non-empty list it has the fields' fetch forms,  *)
(* in field order.                                                         *)
C9_SelectColumnList ==
    (pc = "rendered") =>
        /\ out.sql[1] = Lit("SELECT")
        /\ ColumnList(out.sql) =
              IF obj.fields = <<>> THEN <<Lit("*")>>
              ELSE JoinText(<<Lit(",")>>,
                            [i \in 1..Len(obj.fields) |-> fetch_sql(obj.fields[i])])

\* the names of the named placeholders of a text
PhNames(sql) == {tok.t : tok \in {t \in Range(sql) : t.k = "ph" /\ t.t # ""}}

(* C10: in a named style, for an Update with a SET field and a WHERE       *)
(* expression on the same column X, the SET clause has the placeholder     *)
(* named colX and the WHERE clause the placeholder named X, the two names  *)
(* differ, and the mapping of the returned Arguments has both keys, colX   *)
(* bound to the SET value and X to the WHERE value.                        *)
C10_NamedSetAndWhereKeys ==
    (pc = "rendered" /\ CallStyle \in NameParamStyle) =>
        \A i \in 1..Len(obj.fields), j \in 1..Len(obj.filters) :
            obj.fields[i].left = obj.filters[j].field.left =>
                LET X == obj.fields[i].left
                    colX == "col" \o X
                    mapping == Fields_mapping(out.args)
                IN /\ colX \in PhNames(SetClause(out.sql))
                   /\ X \in PhNames(WhereClause(out.sql))
                   /\ colX # X
                   /\ {colX, X} \subseteq DOMAIN mapping
                   /\ mapping[colX] = obj.fields[i].right
                   /\ mapping[X] = obj.filters[j].field.right

----------------------------------------------------------------------------
\* a rendered Insert: the text before VALUES, and the VALUES clause
InsertColumns(sql) == SubSeq(sql, 1, ClauseStart(sql, {"VALUES"}, 1) - 1)
InsertValues(sql) == Clause(sql, {"VALUES"}, {"RETURNING"})

\* the placeholders phs are those of style for the fields, numbered from
\* offset or named prefix + name
PhsFor(phs, fields, style, offset, prefix) ==
    /\ Len(phs) = Len(fields)
    /\ \A i \in 1..Len(phs) :
          /\ PhInStyle(phs[i], style)
          /\ style \in NumParamStyle => phs[i].n = offset + i - 1
          /\ style \in NameParamStyle => phs[i].t = prefix \o Format(fields[i].left)

\* Field(prefix + name, name) of each field, and Field(prefix + name, value)
ColumnFields(fields) ==
    [i \in 1..Len(fields) |-> Field("col" \o Format(fields[i].left), fields[i].left)]
ValueFieldsOf(fields) ==
    [i \in 1..Len(fields) |-> Field("val" \o Format(fields[i].left), fields[i].right)]

(* C11: Insert.to_sql with inject_columns = true on n fields has the n     *)
(* column names literally, in field order, in the column list and no       *)
(* placeholder there; exactly n value placeholders, numbered offset ..     *)
(* offset+n-1 in a numbered style and named val<name> in a named style;    *)
(* and returns exactly the n value fields, in field order.                 *)
C11_InsertInjectedColumns ==
    (pc = "rendered" /\ call.inject_columns) =>
        /\ InsertColumns(out.sql)
              = <<Lit("INSERT"), Lit("INTO")>> \o table_name(obj) \o <<Lit("(")>>
                   \o JoinText(<<Lit(",")>>,
                               [i \in 1..Len(obj.fields) |-> <<Lit(obj.fields[i].left)>>])
                   \o <<Lit(")")>>
        /\ Len(Placeholders(out.sql)) = Len(obj.fields)
        /\ PhsFor(Placeholders(InsertValues(out.sql)), obj.fields, CallStyle,
                  call.offset, "val")
        /\ out.args = ValueFieldsOf(obj.fields)

C11_Witness ==
    /\ pc = "rendered" /\ call.inject_columns
    /\ Len(obj.fields) = 2 /\ obj.fields[1] # obj.fields[2]
    /\ CallStyle = "DOL" /\ call.offset = 2
    /\ PhNumbers(out.sql) = <<2, 3>>

(* C12: Insert.to_sql with inject_columns = false on n fields has n column *)
(* placeholders and then n value placeholders: in a numbered style at      *)
(* offset o the columns are numbered o .. o+n-1 and the values o+n ..      *)
(* o+2n-1, in a named style they are named col<name> and val<name>; the    *)
(* returned Arguments are the n column fields and then the n value fields. *)
C12_InsertColumnPlaceholders ==
    (pc = "rendered" /\ ~call.inject_columns) =>
        /\ Len(Placeholders(out.sql)) = 2 * Len(obj.fields)
        /\ PhsFor(Placeholders(InsertColumns(out.sql)), obj.fields, CallStyle,
                  call.offset, "col")
        /\ PhsFor(Placeholders(InsertValues(out.sql)), obj.fields, CallStyle,
                  call.offset + Len(obj.fields), "val")
        /\ out.args = ColumnFields(obj.fields) \o ValueFieldsOf(obj.fields)

C12_Witness ==
    /\ pc = "rendered" /\ ~call.inject_columns
    /\ Len(obj.fields) = 2 /\ obj.fields[1] # obj.fields[2]
    /\ CallStyle = "NUM" /\ call.offset = 2
    /\ PhNumbers(out.sql) = <<2, 3, 4, 5>>

(* C13: Expression.to_sql(style, offset) renders the placeholder by style  *)
(* group: the bare literal in a positional style, whatever the offset; the *)
(* template filled with the caller's offset in a numbered style; the       *)
(* template filled with prefix + field.left in a named style, and then     *)
(* only the returned Field's name is prefix + field.left, its value        *)
(* unchanged.  The column name in the text is field.left in every style.   *)
C13_ExpressionByStyleGroup ==
    (pc = "rendered") =>
        /\ Len(out.val) = 3
        /\ out.val[1] = Lit(obj.field.left)
        /\ out.val[2] = Lit(obj.opcode)
        /\ out.key.right = obj.field.right
        /\ CallStyle \in BasicParamStyle =>
              /\ out.val[3] = PhBare(StyleValue(CallStyle))
              /\ out.key = obj.field
        /\ CallStyle \in NumParamStyle =>
              /\ out.val[3] = PhNum(StyleValue(CallStyle), call.offset)
              /\ out.key = obj.field
        /\ CallStyle \in NameParamStyle =>
              /\ out.val[3] = PhName(StyleValue(CallStyle), obj.prefix \o obj.field.left)
              /\ out.key.left = obj.prefix \o obj.field.left

C13_Witness ==
    /\ pc = "rendered" /\ call.style = "PYFM" /\ DEFAULT = "QM"
    /\ obj.prefix = "col" /\ obj.field.left = "a"
    /\ out.key.left = "cola" /\ out.val[1] = Lit("a")

\* the literal word w is in the text
HasWord(sql, w) == \E i \in 1..Len(sql) : sql[i] = Lit(w)

(* C14: Expressions.to_sql on an empty Expressions returns the empty text, *)
(* never the lead keyword alone, and empty Arguments, for every style,     *)
(* offset and lead; so a Select, an Update and a Delete without filters    *)
(* have no WHERE keyword in their text.                                    *)
C14_EmptyExpressionsEmptyText ==
    (pc = "rendered" /\ obj.expressions = <<>>) =>
        /\ out.sql = <<>>
        /\ out.args = <<>>
        /\ \A f \in ValueFields :
              /\ ~HasWord(Select_to_sql(Select(<<f>>, obj.expressions, <<>>),
                                        call.style, call.offset).sql, "WHERE")
              /\ ~HasWord(Update_to_sql(Update(<<f>>, obj.expressions, <<>>, NoReturns),
                                        call.style, call.offset).sql, "WHERE")
              /\ ~HasWord(Delete_to_sql(Delete(obj.expressions, <<>>, f),
                                        call.style, call.offset).sql, "WHERE")

C14_Witness ==
    /\ pc = "rendered" /\ obj.expressions = <<>>
    /\ call.lead = "AND" /\ call.style = "PYFM" /\ call.offset = 2
    /\ out = Nothing

\* the styles of the group of a style
StyleGroup(style) ==
    IF style \in NameParamStyle THEN NameParamStyle
    ELSE IF style \in NumParamStyle THEN NumParamStyle
    ELSE BasicParamStyle

(* C15: Arguments.for_sql(style) returns, for a named style, the mapping   *)
(* from field name to value, with no entry for a Field without a name,     *)
(* and for a positional or numbered style the values of all the Fields in  *)
(* Field order; every style of a group gives the same result.              *)
C15_ForSqlByStyleGroup ==
    (pc = "rendered") =>
        /\ CallStyle \in NameParamStyle =>
              /\ out.type = "dict"
              /\ DOMAIN out.value
                    = {obj.fields[i].left : i \in 1..Len(obj.fields)} \ {Unset}
              /\ \A nm \in DOMAIN out.value :
                    \E i \in 1..Len(obj.fields) :
                        obj.fields[i].left = nm /\ obj.fields[i].right = out.value[nm]
        /\ CallStyle \notin NameParamStyle =>
              /\ out.type = "tuple"
              /\ Len(out.value) = Len(obj.fields)
              /\ \A i \in 1..Len(obj.fields) : out.value[i] = obj.fields[i].right
        /\ \A style \in StyleGroup(CallStyle) : Arguments_for_sql(obj, style) = out

C15_Witness ==
    /\ pc = "rendered" /\ call.style = "PYFM" /\ DEFAULT = "NUM"
    /\ Len(obj.fields) = 2 /\ obj.fields[1].left = Unset /\ obj.fields[2].left = "a"
    /\ out.type = "dict" /\ DOMAIN out.value = {"a"}

(* C16: a Field is built exactly when at least one of left and right is    *)
(* set, and its construction ends with a syntax error when both are unset; *)
(* the construction of an Expression ends with a syntax error exactly when *)
(* its Field has no left; no invalid Field or Expression is ever built.    *)
C16_ConstructionValidated ==
    /\ (pc # "start" /\ call.class = "Field") =>
          /\ (pc = "built") <=> (call.left # Unset \/ call.right # Unset)
          /\ (call.left = Unset /\ call.right = Unset) =>
                (pc = "raised" /\ out.error = "SQLSyntaxError")
          /\ pc = "built" => obj = Field(call.left, call.right)
    /\ (pc # "start" /\ call.class = "Expression") =>
          /\ (pc = "raised") <=> (call.field.left = Unset)
          /\ pc = "raised" => out.error = "SQLSyntaxError"
          /\ pc = "built" => obj.field.left # Unset

(* C17: no to_sql call ends with an exception: every statement that was    *)
(* built renders, in every style; an Insert or an Update with a Field      *)
(* without a name is rejected when it is built, so none is ever rendered.  *)
C17_NoErrorWhileRendering ==
    /\ pc # "raised"
    /\ pc = "rendered" => \A i \in 1..Len(obj.fields) : obj.fields[i].left # Unset

----------------------------------------------------------------------------
\* a 2-element pair; a list all of whose elements are pairs
IsPair(x) == x.type = "tuple" /\ Len(x.items) = 2
AllPairs(data) == \A i \in 1..Len(data.items) : IsPair(data.items[i])

\* the (name, value) entries a data source holds, in its order
Entries(data) == IF data.type = "list" THEN Unpacked(data.items) ELSE data.items

(* C18: data_to_fields ends with a value error, and returns no Fields,     *)
(* when its input is empty (an empty sequence or mapping, or absent) or is *)
(* a sequence with an element that is not a 2-element pair.                *)
C18_EmptyOrMisshapenFails ==
    (/\ pc # "start"
     /\ \/ call.data.type = "NoneType"
        \/ call.data.type \in {"dict", "list"} /\ call.data.items = <<>>
        \/ call.data.type = "list" /\ ~AllPairs(call.data)) =>
        (pc = "raised" /\ out.error = "SQLValueError")

(* C19: a mapping, a sequence of (name, value) pairs, a namedtuple and a   *)
(* dataclass that hold the same names and values in the same order all     *)
(* convert to the same Fields: one Field(name, value) for each entry, in   *)
(* the order of the entries.                                               *)
C19_RepresentationInvariant ==
    (/\ pc # "start" /\ call.exclude = NoExclude
     /\ call.data.type \in {"dict", "list", "namedtuple", "dataclass"}
     /\ call.data.items # <<>>
     /\ call.data.type = "list" => AllPairs(call.data)
     /\ Distinct([i \in 1..Len(call.data.items) |-> Entries(call.data)[i].key])) =>
        /\ pc = "returned"
        /\ out.fields = [i \in 1..Len(call.data.items) |->
                            Field(Entries(call.data)[i].key, Entries(call.data)[i].val)]
        /\ \A t \in {"dict", "namedtuple", "dataclass"} :
              data_to_fields([type |-> t, items |-> Entries(call.data)], call.exclude).fields
                 = out.fields

C19_Witness ==
    /\ pc = "returned" /\ call.exclude = NoExclude
    /\ call.data = [type |-> "list", items |-> <<Pair("foo", "bar"), Pair("baz", "1")>>]
    /\ out.fields = <<Field("foo", "bar"), Field("baz", "1")>>

\* a data source of an accepted shape that holds entries
WellShaped(data) ==
    /\ data.type \in {"dict", "list", "namedtuple", "dataclass"}
    /\ data.items # <<>>
    /\ data.type = "list" => AllPairs(data)

\* the value is one the exclude argument names
Excluded(val, exclude) ==
    /\ exclude # NoExclude
    /\ IF exclude.type THEN IsInstance(val, exclude.v) ELSE PyEq(val, exclude.v)

\* Field(name, value) of the entries that the exclude argument does not name
KeptFields(entries, exclude) ==
    LET kept(e) == ~Excluded(e.val, exclude)
        es == SelectSeq(entries, kept)
    IN [i \in 1..Len(es) |-> Field(es[i].key, es[i].val)]

----------------------------------------------------------------------------
(* RETURNING: the write statements with every shape of a returns Field.    *)

\* the Updates, Deletes and Inserts of at most one field, one filter and
\* one join, without a returns Field and with one of each fetch form
ReturningStatements ==
    LET fss == {<<>>} \cup SeqsOfLen(ValueFields, 1)
        wss == {<<>>} \cup SeqsOfLen(Exprs, 1)
        jss == {<<>>, <<Join(Str("j"), NoFilters)>>}
        rs == {NoReturns} \cup FetchFields
    IN {Update(fs, ws, js, r) : fs \in fss, ws \in wss, js \in jss, r \in rs}
       \cup {Delete(ws, js, r) : ws \in wss, js \in jss, r \in rs}
       \cup {Insert(fs, r) : fs \in fss, r \in rs}

NextReturning ==
    \/ \E style \in ParamStyleT : SetDefaultStyle(style)
    \/ \E style \in Styles, offset \in Offsets, inject_columns \in BOOLEAN :
          obj.kind = "Insert" /\ InsertToSql(style, offset, inject_columns)
    \/ \E style \in Styles, offset \in Offsets :
          obj.kind = "Update" /\ UpdateToSql(style, offset)
    \/ \E style \in Styles, offset \in Offsets :
          obj.kind = "Delete" /\ DeleteToSql(style, offset)

SpecReturning == Init(ReturningStatements) /\ [][NextReturning]_vars

\* the last n tokens of a text
Last(sql, n) == SubSeq(sql, Len(sql) - n + 1, Len(sql))

\* the fetch form of a Field: `left AS right`, or the one that is set
FetchForm(f) ==
    CASE f.left # Unset /\ f.right # Unset -> <<Lit(f.left), Lit("AS"), Lit(f.right)>>
      [] f.left # Unset /\ f.right = Unset -> <<Lit(f.left)>>
      [] OTHER -> <<Lit(f.right)>>

(* C25: the text of an Update, an Insert and a Delete ends with RETURNING  *)
(* and the fetch form of the returns Field exactly when returns is set;    *)
(* when it is not set the text holds no RETURNING keyword.                 *)
C25_ReturningClause ==
    (pc = "rendered") =>
        IF obj.returns # NoReturns
        THEN /\ Len(out.sql) > Len(FetchForm(obj.returns))
             /\ Last(out.sql, Len(FetchForm(obj.returns)) + 1)
                   = <<Lit("RETURNING")>> \o FetchForm(obj.returns)
             /\ Len(SelectSeq(out.sql, LAMBDA tok : tok = Lit("RETURNING"))) = 1
        ELSE ~HasWord(out.sql, "RETURNING")

C25_Witness ==
    /\ pc = "rendered" /\ obj.kind = "Delete"
    /\ obj.returns = Field("a", "v1") /\ obj.filters # <<>>
    /\ Last(out.sql, 4) = <<Lit("RETURNING"), Lit("a"), Lit("AS"), Lit("v1")>>

----------------------------------------------------------------------------
\* the places of the placeholders of a text, left to right
PhPlaces(sql) ==
    LET at == {i \in 1..Len(sql) : IsPh(sql[i])}
        RECURSIVE sorted(_)
        sorted(S) == IF S = {} THEN <<>>
                     ELSE LET a == CHOOSE x \in S : \A y \in S : x <= y
                          IN <<a>> \o sorted(S \ {a})
    IN sorted(at)

\* the column each placeholder of a text is compared with, left to right:
\* an expression reads `column operator placeholder`
PhColumns(sql) ==
    [i \in 1..Len(PhPlaces(sql)) |->
        IF PhPlaces(sql)[i] > 2 THEN sql[PhPlaces(sql)[i] - 2].t ELSE ""]

(* C26: in a positional style the i-th placeholder of the text of a        *)
(* Select, read left to right, is the placeholder of the expression whose  *)
(* Field is the i-th returned argument, also with joins that carry         *)
(* filters.  Stated for the Selects whose clauses repeat no field and      *)
(* whose joins are on named tables, rendered in the default style.         *)
C26_PositionalOrderMatchesArguments ==
    (/\ pc = "rendered" /\ CallStyle \in BasicParamStyle
     /\ CallStyle = DEFAULT /\ Regular(obj)) =>
        /\ Len(Placeholders(out.sql)) = Len(out.args)
        /\ PhColumns(out.sql) = [i \in 1..Len(out.args) |-> out.args[i].left]

(* C27: in a named style every placeholder name in the SET and the WHERE   *)
(* clause of an Update is a key of the mapping of the returned Arguments,  *)
(* and the key of each SET field and of each WHERE expression is bound to  *)
(* the value of that very field or expression; also when two WHERE         *)
(* expressions name one column with different values, and when a WHERE     *)
(* column is named col + the name of a SET column.                         *)
C27_NamedPlaceholdersBound ==
    (pc = "rendered" /\ CallStyle \in NameParamStyle) =>
        LET mapping == Fields_mapping(out.args)
        IN /\ PhNames(SetClause(out.sql)) \cup PhNames(WhereClause(out.sql))
                 \subseteq DOMAIN mapping
           /\ \A i \in 1..Len(obj.fields) :
                 /\ "col" \o obj.fields[i].left \in DOMAIN mapping
                 /\ mapping["col" \o obj.fields[i].left] = obj.fields[i].right
           /\ \A j \in 1..Len(obj.filters) :
                 /\ obj.filters[j].field.left \in DOMAIN mapping
                 /\ mapping[obj.filters[j].field.left] = obj.filters[j].field.right

----------------------------------------------------------------------------
(* A session: a client builds one instance and then, in any order and any  *)
(* number of times, sets or reads the process-wide default style, renders  *)
(* the instance with to_sql / for_sql and reads its memoized as_sql.       *)

\* the most fields and expressions of an instance of a session
MaxSessionSize == 1

\* to_sql of an instance, by its class, with the defaults of the other
\* arguments (Insert: inject_columns = True)
AbstractSQL_to_sql(x, style, offset) ==
    CASE x.kind = "Select" -> Select_to_sql(x, style, offset)
      [] x.kind = "Update" -> Update_to_sql(x, style, offset)
      [] x.kind = "Delete" -> Delete_to_sql(x, style, offset)
      [] x.kind = "Insert" -> Insert_to_sql(x, style, offset, TRUE)
      [] x.kind = "Join" -> Join_to_sql(x, style, offset)

\* the function of the as_sql property: AbstractSQL.as_sql is self.to_sql(),
\* Join.as_sql is self.to_sql()[0]
as_sql(x) ==
    IF x.kind = "Join" THEN [sql |-> Join_to_sql(x, None, 1).sql]
    ELSE AbstractSQL_to_sql(x, None, 1)

\* the slot of a memoized property in the instance: empty, or the value
NoCache == [set |-> FALSE, value |-> Nothing]

\* cached_property: the value is computed on the first access, kept in the
\* instance and returned on every later access
cached_property(cache, value) ==
    IF cache.set THEN cache ELSE [set |-> TRUE, value |-> value]

\* an instance with its memoized as_sql
Instance(x) == [kind |-> x.kind, self |-> x, as_sql |-> NoCache]

SessionInstances ==
    {Instance(x) : x \in Selects(MaxSessionSize) \cup Updates(MaxSessionSize)
                         \cup Deletes(MaxSessionSize) \cup Joins(MaxSessionSize)
                         \cup {Insert(fs, NoReturns) :
                                  fs \in SeqsOfLen(ValueFields, MaxSessionSize)}
                         \cup ArgumentLists(MaxSessionSize)}

InitSession ==
    /\ DEFAULT = "NUM"
    /\ obj \in SessionInstances
    /\ pc = "built"
    /\ call = [op |-> None, style |-> None, offset |-> 0]
    /\ out = Nothing

\* default_style(style): sets the default when a style is given, and
\* returns the default
DefaultStyle(style) ==
    /\ DEFAULT' = IF style # None THEN style ELSE DEFAULT
    /\ pc' = "returned"
    /\ call' = [op |-> "default_style", style |-> style, offset |-> 0]
    /\ out' = [value |-> DEFAULT']
    /\ UNCHANGED obj

\* x.to_sql(style, offset)
ToSql(style, offset) ==
    /\ obj.kind # "Arguments"
    /\ pc' = "rendered"
    /\ call' = [op |-> "to_sql", style |-> style, offset |-> offset]
    /\ out' = AbstractSQL_to_sql(obj.self, style, offset)
    /\ UNCHANGED <<DEFAULT, obj>>

\* arguments.for_sql(style)
ArgumentsForSql(style) ==
    /\ obj.kind = "Arguments"
    /\ pc' = "rendered"
    /\ call' = [op |-> "for_sql", style |-> style, offset |-> 0]
    /\ out' = Arguments_for_sql(obj.self, style)
    /\ UNCHANGED <<DEFAULT, obj>>

\* x.as_sql
AsSql ==
    /\ obj.kind # "Arguments"
    /\ obj' = [obj EXCEPT !.as_sql = cached_property(obj.as_sql, as_sql(obj.self))]
    /\ pc' = "returned"
    /\ call' = [op |-> "as_sql", style |-> None, offset |-> 0]
    /\ out' = obj'.as_sql.value
    /\ UNCHANGED DEFAULT

NextSession ==
    \/ \E style \in Styles : DefaultStyle(style)
    \/ \E style \in Styles, offset \in Offsets : ToSql(style, offset)
    \/ \E style \in Styles : ArgumentsForSql(style)
    \/ AsSql

SpecSession == InitSession /\ [][NextSession]_vars

(* C24: after default_style(s) every to_sql and for_sql call that omits    *)
(* the style returns what the same call returns with s given explicitly,   *)
(* until the default is set again; default_style() with no argument        *)
(* returns the current default and leaves it unchanged; no to_sql, for_sql *)
(* or as_sql changes the default.                                          *)
C24_DefaultStyleUsed ==
    /\ []((pc = "rendered" /\ call.op = "to_sql" /\ call.style = None) =>
             out = AbstractSQL_to_sql(obj.self, DEFAULT, call.offset))
    /\ []((pc = "rendered" /\ call.op = "for_sql" /\ call.style = None) =>
             out = Arguments_for_sql(obj.self, DEFAULT))
    /\ [][(call'.op = "default_style" /\ call'.style # None) =>
             DEFAULT' = call'.style]_vars
    /\ [][(call'.op = "default_style" /\ call'.style = None) =>
             (DEFAULT' = DEFAULT /\ out'.value = DEFAULT)]_vars
    /\ [][call'.op \in {"to_sql", "for_sql", "as_sql"} => DEFAULT' = DEFAULT]_vars

C24_Witness ==
    /\ pc = "rendered" /\ call.op = "to_sql" /\ call.style = None
    /\ DEFAULT = "PYFM" /\ obj.kind = "Select" /\ Len(obj.self.filters) = 1
    /\ Placeholders(out.sql) = <<PhName("%({})s", obj.self.filters[1].field.left)>>

(* C29: whatever the default_style changes, as_sql accesses and to_sql     *)
(* calls made, the memoized as_sql of an instance is what to_sql() with    *)
(* default arguments returns now: the cached value is never stale.         *)
C29_AsSqlNeverStale ==
    obj.as_sql.set => obj.as_sql.value = as_sql(obj.self)

----------------------------------------------------------------------------
(* Fields and Arguments as objects.  A heap is [F, A]: F[i] is the tuple   *)
(* `fields` of the i-th Fields object, A[x] the Fields object that the     *)
(* attribute `fields` of the x-th Arguments object refers to.  An          *)
(* operation returns [h, id]: the heap after it and the object it returns. *)

\* the most Fields objects of a heap a client works on
MaxObjects == 3

\* Fields(fields) that hands out the existing object of the same fields,
\* when there is one
Fields_init_interned(h, fields) ==
    IF \E i \in 1..Len(h.F) : h.F[i] = fields
    THEN [h |-> h, id |-> CHOOSE i \in 1..Len(h.F) : h.F[i] = fields]
    ELSE [h |-> [h EXCEPT !.F = Append(@, fields)], id |-> Len(h.F) + 1]

\* Fields(fields): a new object
Fields_init(h, fields) ==
    [h |-> [h EXCEPT !.F = Append(@, fields)], id |-> Len(h.F) + 1]

\* Fields.add / __add__: Fields(chain(self.fields, fields.fields))
Fields_add(h, a, b) == Fields_init(h, h.F[a] \o h.F[b])

\* Fields.iadd / __iadd__: self.fields += fields.fields; return self
Fields_iadd(h, a, b) == [h |-> [h EXCEPT !.F[a] = h.F[a] \o h.F[b]], id |-> a]

\* Arguments(fields) whose default Fields() is one object, built once and
\* shared by every Arguments that is given no fields
Arguments_init_default(h, f) ==
    IF f # 0 /\ Len(h.F[f]) > 0
    THEN [h |-> [h EXCEPT !.A = Append(@, f)], id |-> Len(h.A) + 1]
    ELSE IF Len(h.F) >= 2
    THEN [h |-> [h EXCEPT !.A = Append(@, 2)], id |-> Len(h.A) + 1]
    ELSE [h |-> [h EXCEPT !.F = Append(@, <<>>), !.A = Append(@, Len(h.F) + 1)],
          id |-> Len(h.A) + 1]

\* Arguments(fields): self.fields = fields or Fields(); f = 0 is fields=None,
\* and a Fields of length 0 is false
Arguments_init(h, f) ==
    IF f # 0 /\ Len(h.F[f]) > 0
    THEN [h |-> [h EXCEPT !.A = Append(@, f)], id |-> Len(h.A) + 1]
    ELSE LET n == Fields_init(h, <<>>)
         IN [h |-> [n.h EXCEPT !.A = Append(@, n.id)], id |-> Len(h.A) + 1]

\* Arguments.append: self.fields = Fields((*self.fields, field))
Arguments_append(h, x, field) ==
    LET n == Fields_init(h, h.F[h.A[x]] \o <<field>>)
    IN [h |-> [n.h EXCEPT !.A[x] = n.id], id |-> x]

\* Arguments.add / __add__: Arguments(self.fields + arguments.fields)
Arguments_add(h, x, y) ==
    LET n == Fields_add(h, h.A[x], h.A[y]) IN Arguments_init(n.h, n.id)

\* Arguments.iadd / __iadd__: self.fields += arguments.fields; return self
Arguments_iadd(h, x, y) ==
    LET n == Fields_iadd(h, h.A[x], h.A[y])
    IN [h |-> [n.h EXCEPT !.A[x] = n.id], id |-> x]

\* the Fields a client builds: the first with fields, held by a statement
FieldA == Field("a", "v1")
FieldB == Field("cola", "v2")
ClientFields == {1, 2}

InitFields ==
    /\ DEFAULT = "NUM"
    /\ \E f1 \in {<<FieldA>>, <<FieldA, FieldB>>}, f2 \in {<<>>, <<FieldB>>} :
          obj = [kind |-> "Heap", F |-> <<f1, f2>>, A |-> <<>>,
                 statement |-> [kind |-> "Select", table |-> "t", fields |-> 1]]
    /\ pc = "built"
    /\ call = [op |-> None, self |-> 0, other |-> 0]
    /\ out = [id |-> 0]

\* an operation of the client on the heap returned r; no tuple grows past
\* MaxSize and no more than MaxObjects Fields are built
Returned(op, self, other, r) ==
    /\ Len(r.h.F) <= MaxObjects
    /\ Len(r.h.A) <= MaxObjects
    /\ \A i \in 1..Len(r.h.F) : Len(r.h.F[i]) <= MaxSize
    /\ obj' = [obj EXCEPT !.F = r.h.F, !.A = r.h.A]
    /\ pc' = "returned"
    /\ call' = [op |-> op, self |-> self, other |-> other]
    /\ out' = [id |-> r.id]
    /\ UNCHANGED DEFAULT

Heap == [F |-> obj.F, A |-> obj.A]

\* c = a + b
FieldsAdd(a, b) == Returned("Fields.add", a, b, Fields_add(Heap, a, b))
\* a += b
FieldsIadd(a, b) == Returned("Fields.iadd", a, b, Fields_iadd(Heap, a, b))
\* Arguments(f), Arguments()
NewArguments(f) == Returned("Arguments", f, 0, Arguments_init(Heap, f))
\* x.append(field)
ArgumentsAppend(x, field) ==
    Returned("Arguments.append", x, 0, Arguments_append(Heap, x, field))
\* z = x + y
ArgumentsAdd(x, y) == Returned("Arguments.add", x, y, Arguments_add(Heap, x, y))
\* x += y
ArgumentsIadd(x, y) == Returned("Arguments.iadd", x, y, Arguments_iadd(Heap, x, y))

NextFields ==
    \/ \E a, b \in 1..Len(obj.F) : FieldsAdd(a, b)
    \/ \E a, b \in 1..Len(obj.F) : FieldsIadd(a, b)
    \/ \E f \in 0..Len(obj.F) : NewArguments(f)
    \/ \E x \in 1..Len(obj.A), field \in {FieldA, FieldB} : ArgumentsAppend(x, field)
    \/ \E x, y \in 1..Len(obj.A) : ArgumentsAdd(x, y)
    \/ \E x, y \in 1..Len(obj.A) : ArgumentsIadd(x, y)

SpecFields == InitFields /\ [][NextFields]_vars

(* C21: no operation of Fields or Arguments (add, iadd, append) changes    *)
(* the field sequence of a Fields object that exists; a concatenation      *)
(* returns a new Fields that holds the fields of the left operand followed *)
(* by those of the right one.                                              *)
C21_FieldsImmutable ==
    [][/\ \A i \in 1..Len(obj.F) : obj'.F[i] = obj.F[i]
       /\ call'.op = "Fields.add" =>
             /\ out'.id > Len(obj.F)
             /\ obj'.F[out'.id] = obj.F[call'.self] \o obj.F[call'.other]
       /\ call'.op = "Arguments.add" =>
             /\ out'.id > Len(obj.A)
             /\ obj'.A[out'.id] > Len(obj.F)
             /\ obj'.F[obj'.A[out'.id]]
                   = obj.F[obj.A[call'.self]] \o obj.F[obj.A[call'.other]]]_vars

(* C30: extending an Arguments in place (iadd, append) leaves every Fields *)
(* the client built, and so the statement that holds one, with the field   *)
(* sequence it had; this for an Arguments built from such a Fields too.    *)
C30_ArgumentsOwnFields ==
    [][call'.op \in {"Arguments.iadd", "Arguments.append"} =>
          /\ \A f \in ClientFields : obj'.F[f] = obj.F[f]
          /\ obj'.F[obj'.statement.fields] = obj.F[obj.statement.fields]]_vars

----------------------------------------------------------------------------
(* Rendering on the heap.  The Arguments a to_sql call builds, merges and  *)
(* returns are objects of the heap; H_x is x with the heap passed through: *)
(* it returns the heap after the call and the Arguments object, with the   *)
(* text that the call emits.                                                *)

\* the field sequence of the Fields that an Arguments refers to
FieldsOfArgs(h, a) == h.F[h.A[a]]

\* Arguments(f), for the Fields f = [h, id] that was just built
ArgumentsOf(f) == Arguments_init(f.h, f.id)

\* Arguments(Fields(fields))
H_Arguments(h, fields) == ArgumentsOf(Fields_init(h, fields))

\* args += other, for the Arguments other = [h, id] that was just built
H_iadd(args, other) == Arguments_iadd(other.h, args, other.id)

\* the clauses rendered so far with their Arguments a = [h, id], and
\* offset = self.get_offset(args, offset)
H_clauses(a, sql, where, offset) ==
    [h |-> a.h, args |-> a.id, sql |-> sql, where |-> where,
     off |-> get_offset(FieldsOfArgs(a.h, a.id), offset)]

\* where, args = self.filters.to_sql(style=style, offset=offset) and the
\* new offset, w the rendered filters
H_where(h, sql, w, offset) == H_clauses(H_Arguments(h, w.args), sql, w.sql, offset)

\* update, args = self.build_update(style, offset=offset) and the new
\* offset, u the rendered SET clause
H_update(h, u, offset) == H_clauses(H_Arguments(h, u.args), u.sql, <<>>, offset)

\* args += whargs and the new offset, au the clauses of build_update and w
\* the rendered filters
H_update_where(au, w) ==
    H_clauses(H_iadd(au.args, H_Arguments(au.h, w.args)), au.sql, w.sql, au.off)

\* where, whargs = self.filters.to_sql(style, offset=offset), at the offset
\* behind the SET clause
H_update_filters(au, s, st) ==
    H_update_where(au, Expressions_to_sql(s.filters, st, au.off, "WHERE"))

\* to_sql of a Select, an Update or a Delete up to build_joins, the style
\* resolved to st: the clauses and their Arguments, and the offset for the
\* joins
H_head(h, s, st, offset) ==
    IF s.kind = "Update"
    THEN H_update_filters(H_update(h, build_update(s, st, offset), offset), s, st)
    ELSE H_where(h, IF s.kind = "Select" THEN build_select(s)
                    ELSE <<Lit("DELETE"), Lit("FROM")>> \o table_name(s),
                 Expressions_to_sql(s.filters, st, offset, "WHERE"), offset)

\* what a call returns: the text, and the Arguments a = [h, id]
H_result(a, sql) == [h |-> a.h, args |-> a.id, sql |-> sql]

\* retvals = values, or retvals = columns; retvals += values, and
\* Arguments(retvals); c and v are the Fields columns and values
H_insert_retvals(c, v, inject_columns) ==
    ArgumentsOf(IF inject_columns THEN v ELSE Fields_iadd(v.h, c.id, v.id))

\* values = Fields(...), built after the Fields c of the columns
H_insert_values(c, s, inject_columns) ==
    H_insert_retvals(c, Fields_init(c.h, [i \in 1..Len(s.fields) |->
                 Field("val" \o Format(s.fields[i].left), s.fields[i].right)]),
                     inject_columns)

\* Insert.build_insert: columns and values are two new Fields; without
\* inject_columns the values are added to the columns in place
H_build_insert(h, s, st, offset, inject_columns) ==
    H_result(H_insert_values(Fields_init(h, [i \in 1..Len(s.fields) |->
                 Field("col" \o Format(s.fields[i].left), s.fields[i].left)]),
                             s, inject_columns),
             build_insert(s, st, offset, inject_columns).sql)

\* the table of a join: args = Arguments() (a0), or the Arguments of the
\* nested Select (a Select without joins)
H_join_table(a0, j, style, offset) ==
    IF Join_table_name(j).isSelect
    THEN H_head(a0.h, j.table, StyleOrDefault(style), offset)
    ELSE [h |-> a0.h, args |-> a0.id]

\* args += filtargs, filtargs the Arguments of the filters w, or Arguments()
H_join_filters(sel, j, w) ==
    H_iadd(sel.args, IF ~j.filters.isNone THEN H_Arguments(sel.h, w.args)
                     ELSE Arguments_init(sel.h, 0))

\* Join.to_sql
H_Join_to_sql(h, j, style, offset) ==
    H_result(H_join_filters(H_join_table(Arguments_init(h, 0), j, style, offset), j,
                 Expressions_to_sql(j.filters.expressions, None, offset, "AND")),
             Join_to_sql(j, style, offset).sql)

\* to_sql of a statement without joins, in one piece
H_to_sql(h, s, style, offset) ==
    H_result([h |-> H_head(h, s, IF s.kind = "Delete" THEN default_style
                                 ELSE StyleOrDefault(style), offset).h,
              id |-> H_head(h, s, IF s.kind = "Delete" THEN default_style
                                  ELSE StyleOrDefault(style), offset).args],
             to_sql(s, style, offset).sql)

----------------------------------------------------------------------------
(* Threads.  One statement instance is built; its Fields is the object 1   *)
(* of the heap.  Each thread makes one to_sql call on it, and a call runs  *)
(* in steps: it resolves the style, renders the clauses before the joins,  *)
(* renders one join after the other and merges its Arguments, and returns. *)
(* A CommonTableExpression renders its expression, then its statement, and *)
(* merges the two Arguments.  The steps of the threads interleave.         *)

Threads == {1, 2}

\* the styles and the offsets that the calls of the threads pass
ThreadStyles == {None, "QM", "PYFM"}

ExprA == Expression(FieldA, "=", "")
ExprB == Expression(FieldB, "=", "")

\* the statements the threads render: with and without SET fields, WHERE
\* expressions, and a join on a table or on a nested Select, with filters
ThreadStatements ==
    LET fss == {<<>>, <<FieldA>>}
        wss == {<<>>, <<ExprA>>}
        jss == {<<>>, <<Join(Str("j"), NoFilters)>>,
                <<Join(Str("j"), Filters(<<ExprB>>))>>,
                <<Join(Select(<<>>, <<ExprA>>, <<>>), Filters(<<ExprB>>))>>}
    IN {Select(fs, ws, js) : fs \in fss, ws \in wss, js \in jss}
       \cup {Update(fs, ws, js, NoReturns) : fs \in fss, ws \in wss, js \in jss}
       \cup {Delete(ws, js, NoReturns) : ws \in wss, js \in jss}
       \cup {Insert(fs, NoReturns) : fs \in fss}
       \cup {CommonTableExpression(Update(fs, ws, <<>>, NoReturns),
                                   Select(<<>>, ws2, <<>>)) :
                fs \in fss, ws \in wss, ws2 \in wss}

\* the Fields of a statement: those of the expression, for a CTE
FieldsAttr(s) == IF s.kind = "CTE" THEN s.expression.fields ELSE s.fields

\* a thread that is not in a call, and the locals of a call
NoFrame ==
    [style |-> None, offset |-> 0, inject_columns |-> TRUE, st |-> None,
     off |-> 0, args |-> 0, stmtargs |-> 0, j |-> 0,
     sql |-> <<>>, joins |-> <<>>, where |-> <<>>, stmt |-> <<>>]
NoResult == [sql |-> <<>>, args |-> 0]

InitThreads ==
    /\ DEFAULT = "NUM"
    /\ \E s \in ThreadStatements :
          obj = [kind |-> "Process", statement |-> s,
                 F |-> <<FieldsAttr(s)>>, A |-> <<>>]
    /\ pc = [t \in Threads |-> "idle"]
    /\ call = [t \in Threads |-> NoFrame]
    /\ out = [t \in Threads |-> NoResult]

\* self: the statement, with the fields its Fields object holds now
Self ==
    IF obj.statement.kind = "CTE"
    THEN [obj.statement EXCEPT !.expression.fields = obj.F[1]]
    ELSE [obj.statement EXCEPT !.fields = obj.F[1]]

\* thread t goes on to `next` with the locals `frame` and the heap h
Step(t, next, frame, h) ==
    /\ pc' = [pc EXCEPT ![t] = next]
    /\ call' = [call EXCEPT ![t] = frame]
    /\ obj' = [obj EXCEPT !.F = h.F, !.A = h.A]
    /\ UNCHANGED <<DEFAULT, out>>

\* thread t calls self.to_sql(style, offset), an Insert with inject_columns
Call(t, style, offset, inject_columns) ==
    /\ pc[t] = "idle"
    /\ obj.statement.kind # "Insert" => inject_columns
    /\ Step(t, "style", [NoFrame EXCEPT !.style = style, !.offset = offset,
                                        !.inject_columns = inject_columns], Heap)

\* style = style or default_style(); Delete: style = default_style()
ResolveStyle(t) ==
    /\ pc[t] = "style"
    /\ Step(t, "head",
            [call[t] EXCEPT !.st = IF obj.statement.kind = "Delete" THEN default_style
                                   ELSE StyleOrDefault(call[t].style)],
            Heap)

\* thread t has rendered r and goes on to `next`
RenderedCall(t, next, r) ==
    Step(t, next, [call[t] EXCEPT !.args = r.args, !.sql = r.sql], r.h)

\* thread t has rendered the clauses r and goes on to build_joins
RenderedClauses(t, r) ==
    Step(t, "joins", [call[t] EXCEPT !.args = r.args, !.sql = r.sql,
                                     !.where = r.where, !.off = r.off,
                                     !.j = 1], r.h)

\* the clauses before the joins; a whole Insert; the expression of a CTE
RenderHead(t) ==
    /\ pc[t] = "head"
    /\ CASE Self.kind = "Insert" ->
              RenderedCall(t, "return",
                       H_build_insert(Heap, Self, call[t].st, call[t].offset,
                                      call[t].inject_columns))
         [] Self.kind = "CTE" ->
              RenderedCall(t, "statement",
                       H_to_sql(Heap, Self.expression, call[t].st, call[t].offset))
         [] OTHER ->
              RenderedClauses(t, H_head(Heap, Self, call[t].st, call[t].offset))

\* stmt, jargs = j.to_sql(...) gave r: joins = f"{joins}{stmt}\n",
\* args += jargs, offset += len(jargs)
RenderedJoin(t, r) ==
    Step(t, "joins",
         [call[t] EXCEPT !.joins = @ \o r.sql, !.j = @ + 1,
                         !.off = @ + Len(FieldsOfArgs(r.h, r.args))],
         Arguments_iadd(r.h, call[t].args, r.args).h)

\* one turn of the loop of build_joins
RenderJoin(t) ==
    /\ pc[t] = "joins"
    /\ call[t].j <= Len(Self.joins)
    /\ RenderedJoin(t, H_Join_to_sql(Heap, Self.joins[call[t].j], call[t].st,
                                     call[t].off))

\* build_joins returns
JoinsDone(t) ==
    /\ pc[t] = "joins"
    /\ call[t].j > Len(Self.joins)
    /\ Step(t, "return", call[t], Heap)

\* thread t has rendered the statement of the CTE
RenderedStatement(t, r) ==
    Step(t, "merge", [call[t] EXCEPT !.stmtargs = r.args, !.stmt = r.sql], r.h)

\* CommonTableExpression.to_sql: self.statement.to_sql(style, get_offset(...))
RenderStatement(t) ==
    /\ pc[t] = "statement"
    /\ RenderedStatement(t, H_to_sql(Heap, Self.statement, call[t].st,
                         get_offset(FieldsOfArgs(Heap, call[t].args), call[t].offset)))

\* CommonTableExpression.to_sql: exprargs += stmtargs
MergeArguments(t) ==
    /\ pc[t] = "merge"
    /\ Step(t, "return", call[t],
            Arguments_iadd(Heap, call[t].args, call[t].stmtargs).h)

\* the text a call returns, of the pieces it rendered
Text(s, frame) ==
    CASE s.kind = "Select" -> frame.sql \o frame.joins \o frame.where
      [] s.kind \in {"Update", "Delete"} ->
            frame.sql \o frame.joins \o frame.where \o returning(s)
      [] s.kind = "Insert" -> frame.sql
      [] s.kind = "CTE" ->
            <<Lit("WITH"), Lit(s.alias), Lit("AS"), Lit("(")>> \o frame.sql
               \o <<Lit(")")>> \o frame.stmt

\* return sql, args
Return(t) ==
    /\ pc[t] = "return"
    /\ pc' = [pc EXCEPT ![t] = "done"]
    /\ out' = [out EXCEPT ![t] = [sql |-> Text(Self, call[t]), args |-> call[t].args]]
    /\ UNCHANGED <<DEFAULT, obj, call>>

NextThreads ==
    \/ \E t \in Threads, style \in ThreadStyles, offset \in Offsets,
          inject_columns \in BOOLEAN : Call(t, style, offset, inject_columns)
    \/ \E t \in Threads : ResolveStyle(t)
    \/ \E t \in Threads : RenderHead(t)
    \/ \E t \in Threads : RenderJoin(t)
    \/ \E t \in Threads : JoinsDone(t)
    \/ \E t \in Threads : RenderStatement(t)
    \/ \E t \in Threads : MergeArguments(t)
    \/ \E t \in Threads : Return(t)

SpecThreads == InitThreads /\ [][NextThreads]_vars

\* what the call returns when it runs alone, on the statement as built
Alone(s, frame) ==
    CASE s.kind = "Insert" ->
            Insert_to_sql(s, frame.style, frame.offset, frame.inject_columns)
      [] s.kind = "CTE" -> CTE_to_sql(s, frame.style, frame.offset)
      [] OTHER -> to_sql(s, frame.style, frame.offset)

\* the Arguments objects a call holds, and the Fields objects behind them
Held(t) == {call[t].args, call[t].stmtargs, out[t].args} \ {0}
HeldFields(t) == {obj.A[a] : a \in Held(t)}

(* C22: a to_sql call leaves the Fields of the statement as it was built,  *)
(* and returns an Arguments of its own, not the statement's Fields and not *)
(* the Arguments of another call; two calls on one statement with the same *)
(* style and offset return equal text and equal Arguments; the Arguments a *)
(* call has returned is not changed by any later step of another call.     *)
C22_RenderingLeavesInputs ==
    /\ [](obj.F[1] = FieldsAttr(obj.statement))
    /\ [](\A t \in Threads : pc[t] = "done" => obj.A[out[t].args] # 1)
    /\ []((pc[1] = "done" /\ pc[2] = "done") =>
             /\ out[1].args # out[2].args
             /\ obj.A[out[1].args] # obj.A[out[2].args]
             /\ (/\ call[1].style = call[2].style
                 /\ call[1].offset = call[2].offset
                 /\ call[1].inject_columns = call[2].inject_columns) =>
                   /\ out[1].sql = out[2].sql
                   /\ FieldsOfArgs(Heap, out[1].args) = FieldsOfArgs(Heap, out[2].args))
    /\ [][\A t \in Threads : pc[t] = "done" =>
             FieldsOfArgs(Heap', out[t].args) = FieldsOfArgs(Heap, out[t].args)]_vars

C22_Witness ==
    /\ pc[1] = "done" /\ pc[2] = "done"
    /\ obj.statement.kind = "Update" /\ obj.statement.fields = <<FieldA>>
    /\ obj.statement.filters = <<ExprA>>
    /\ obj.statement.joins = <<Join(Str("j"), Filters(<<ExprB>>))>>
    /\ call[1].style = "QM" /\ call[2].style = "QM"
    /\ call[1].offset = call[2].offset
    /\ out[1].args < out[2].args
    /\ FieldsOfArgs(Heap, out[1].args) = <<FieldA, FieldA, FieldB>>
    /\ FieldsOfArgs(Heap, out[2].args) = <<FieldA, FieldA, FieldB>>

(* C23: for any interleaving of the steps of two to_sql calls made by two  *)
(* threads, the default style left as it is, each call returns the text    *)
(* and the Arguments that it returns when it runs alone, and the two calls *)
(* hold no Arguments and no Fields object in common.                       *)
C23_ThreadsRenderAlone ==
    /\ \A t \in Threads : pc[t] = "done" =>
          /\ out[t].sql = Alone(obj.statement, call[t]).sql
          /\ FieldsOfArgs(Heap, out[t].args) = Alone(obj.statement, call[t]).args
    /\ Held(1) \cap Held(2) = {}
    /\ HeldFields(1) \cap HeldFields(2) = {}

\* thread 1 has returned; thread 2, which rendered its clauses first, is
\* still in its joins
C23_Witness ==
    /\ pc[1] = "done" /\ pc[2] = "joins" /\ call[2].j = 1
    /\ call[2].args < out[1].args
    /\ obj.statement.kind = "Select"
    /\ obj.statement.joins = <<Join(Select(<<>>, <<ExprA>>, <<>>), Filters(<<ExprB>>))>>
    /\ call[1].style = "PYFM" /\ call[2].style = "QM"
    /\ Len(FieldsOfArgs(Heap, out[1].args)) = 3

----------------------------------------------------------------------------
(* A race: thread 1 renders the statement, step by step, while another     *)
(* thread sets the process-wide default style, any number of times.        *)

\* default_style(style), called by the other thread
ThreadDefaultStyle(style) ==
    /\ DEFAULT' = style
    /\ UNCHANGED <<obj, pc, call, out>>

NextRace ==
    \/ \E style \in Styles, offset \in Offsets, inject_columns \in BOOLEAN :
          Call(1, style, offset, inject_columns)
    \/ ResolveStyle(1)
    \/ RenderHead(1)
    \/ RenderJoin(1)
    \/ JoinsDone(1)
    \/ RenderStatement(1)
    \/ MergeArguments(1)
    \/ Return(1)
    \/ \E style \in ParamStyleT : ThreadDefaultStyle(style)

SpecRace == InitThreads /\ [][NextRace]_vars

(* C28: a to_sql call emits all of its placeholders in one style, resolved *)
(* once for the call, also when another thread sets the default style      *)
(* while the call runs.  Stated for the calls that omit the style, which   *)
(* resolve it from the default.                                            *)
C28_OneStylePerCall ==
    (pc[1] = "done" /\ call[1].style = None) =>
        /\ \A i \in 1..Len(Placeholders(out[1].sql)) :
              PhInStyle(Placeholders(out[1].sql)[i], call[1].st)
        /\ \E style \in ParamStyleT :
              \A i \in 1..Len(Placeholders(out[1].sql)) :
                  PhInStyle(Placeholders(out[1].sql)[i], style)

====
